---- MODULE Spec2Model ----
(***************************************************************************)
(* State-machine model of the Schwarzschild black-hole renderer            *)
(* (BlackholeRenderer, BlackholeObserver, CameraControls).                 *)
(*                                                                         *)
(* Fixed-point units used for the program's floating-point quantities:     *)
(*   distances          1 = 0.01 Schwarzschild radius   (2.0  -> 200)      *)
(*   angular velocity   1 = 1e-6 rad/s                  (0.15 -> 150000)   *)
(*   time               1 = 1 ms                        (0.1s -> 100)      *)
(*   sensitivities      1 = 0.001                       (0.002 -> 2)       *)
(*   bloom / scale      1 = 0.01                        (0.5  -> 50)       *)
(***************************************************************************)
EXTENDS Integers, Sequences, FiniteSets, TLC

VARIABLES
    config,   \* BlackholeRenderer.config (after the merge with the defaults)
    obs,      \* BlackholeObserver fields
    ctl,      \* CameraControls fields
    uni,      \* BlackholeRenderer.uniforms
    loop,     \* animationId, lastTime and the browser's pending frame callbacks
    now,      \* performance.now()
    tex,      \* the TextureLoader requests and loadTextures' closure state
    res,      \* the released resources (dispose calls issued on each handle)
    hist,     \* history: the last operation, its argument, the last frame drawn
    ray,      \* one invocation of the fragment shader's main() (one pixel's ray)
    comp      \* the BlackholeBackground component: its refs, its props and the
              \* calls it has made on the renderers it created

vars == <<config, obs, ctl, uni, loop, now, tex, res, hist, ray, comp>>

----------------------------------------------------------------------------
(* Bounds of the model *)

MaxHandle == 3        \* frame-callback handles handed out by requestAnimationFrame
MaxDisposeCalls == 2  \* dispose() calls made on one renderer
MaxSetConfig == 2     \* setConfig calls made on one renderer
MaxInputs == 2        \* wheel and touch events delivered to one canvas
MaxMounts == 2        \* times the component's effects are run from scratch
MaxRenders == 2       \* re-renders of the mounted component

----------------------------------------------------------------------------
(* Program constants *)

MIN_R == 200                  \* Math.max(value, 2.0) in set distance
MIN_RANGE == 201              \* Math.max(min, 2.01) in setDistanceRange
ZOOM_SPEED == 10              \* zoomSpeed = 0.1 in onWheel
MAX_DELTA == 100              \* Math.min(..., 0.1) in animate
TIME_WRAP == 1000000          \* % 1000.0 on uTime
OBSERVER_FOV == 60            \* BlackholeObserver.fov = 60
NULL == 0                     \* animationId === null

Min(a, b) == IF a <= b THEN a ELSE b
Max(a, b) == IF a >= b THEN a ELSE b
Abs(a) == IF a < 0 THEN -a ELSE a

\* Math.sqrt on non-negative integers, rounded down (Newton iteration)
RECURSIVE SqrtIter(_, _)
SqrtIter(n, x) ==
    LET y == (x + n \div x) \div 2
    IN IF y >= x THEN x ELSE SqrtIter(n, y)

Sqrt(n) == IF n = 0 THEN 0 ELSE SqrtIter(n, n)

\* 1 / Math.sqrt(2.0 * (r - 1.0)) / r, r in 0.01 units (r > 100), result in 1e-6 rad/s
MaxAngularVelocity(r) ==
    (((1000000000 \div Sqrt((2 * r - 200) * 10000)) * 100) \div r)

----------------------------------------------------------------------------
(* Fixed-point trigonometry: angles in 1e-4 rad, values in 1e-4            *)

ONE == 10000                  \* 1.0
PI == 31416                   \* Math.PI
HALF_PI == 15708              \* Math.PI / 2
TWO_PI == 62832               \* Math.PI * 2
INCLINE == -873               \* -5 * Math.PI / 180
PITCH_MARGIN == 1000          \* the 0.1 of -Math.PI / 2 + 0.1

Sign(a) == IF a < 0 THEN -1 ELSE 1

\* a * t / 1.0 for a fixed-point factor t with |t| <= 1.0, cut towards zero
MulFix(a, t) ==
    LET p == Abs(a)
        q == Abs(t)
    IN Sign(a) * Sign(t) * ((p \div ONE) * q + ((p % ONE) * q) \div ONE)

\* the product of two fixed-point numbers, each split at the point so that no
\* partial product leaves the integers of the model
Mul(a, b) ==
    LET p == Abs(a)
        q == Abs(b)
        ph == p \div ONE
        pl == p % ONE
        qh == q \div ONE
        ql == q % ONE
    IN Sign(a) * Sign(b) * (ph * qh * ONE + ph * ql + pl * qh + (pl * ql) \div ONE)

\* a % b of JavaScript (the sign of the dividend)
Rem(a, b) == IF a >= 0 THEN a % b ELSE -((-a) % b)

SIN_STEP == 238               \* HALF_PI / 66

\* Math.sin at the angles 0, SIN_STEP, ..., HALF_PI
SIN_TABLE ==
    << 0, 238, 476, 713, 951, 1187, 1423, 1658, 1893, 2126,
       2358, 2588, 2817, 3045, 3271, 3495, 3717, 3937, 4154, 4369,
       4582, 4793, 5000, 5205, 5406, 5605, 5801, 5993, 6182, 6367,
       6549, 6727, 6901, 7071, 7237, 7400, 7558, 7711, 7861, 8005,
       8146, 8282, 8413, 8539, 8660, 8777, 8888, 8995, 9096, 9193,
       9284, 9370, 9450, 9525, 9595, 9659, 9718, 9771, 9819, 9862,
       9898, 9929, 9955, 9975, 9989, 9997, 10000 >>

\* Math.sin on [0, pi/2], interpolated between the table entries
SinQ(x) ==
    LET k == Min(x \div SIN_STEP, 65)
        lo == SIN_TABLE[k + 1]
        hi == SIN_TABLE[k + 2]
    IN lo + ((hi - lo) * (x - k * SIN_STEP)) \div SIN_STEP

\* Math.sin
Sin(a) ==
    LET m == a % TWO_PI
    IN IF m <= HALF_PI THEN SinQ(m)
       ELSE IF m <= PI THEN SinQ(PI - m)
       ELSE IF m <= PI + HALF_PI THEN -SinQ(m - PI)
       ELSE -SinQ(TWO_PI - m)

\* Math.cos
Cos(a) == Sin(a + HALF_PI)

\* bisection for the least angle t in (lo, hi] with SinQ(t) >= y
RECURSIVE AsinSearch(_, _, _)
AsinSearch(y, lo, hi) ==
    IF hi - lo <= 1 THEN hi
    ELSE LET mid == (lo + hi) \div 2
         IN IF SinQ(mid) >= y THEN AsinSearch(y, lo, mid)
            ELSE AsinSearch(y, mid, hi)

\* Math.asin, y in [-1.0, 1.0]
Asin(y) ==
    IF y = 0 THEN 0
    ELSE Sign(y) * AsinSearch(Min(Abs(y), ONE), 0, HALF_PI)

\* bisection for the least angle t in (lo, hi] with tan(t) >= a / b, a, b > 0
RECURSIVE AtanSearch(_, _, _, _)
AtanSearch(a, b, lo, hi) ==
    IF hi - lo <= 1 THEN hi
    ELSE LET mid == (lo + hi) \div 2
         IN IF SinQ(mid) * b >= SinQ(HALF_PI - mid) * a
            THEN AtanSearch(a, b, lo, mid)
            ELSE AtanSearch(a, b, mid, hi)

\* Math.atan2(a, b), |a|, |b| <= 1.0
Atan2(a, b) ==
    LET base == IF a = 0 THEN 0
                ELSE IF b = 0 THEN HALF_PI
                ELSE AtanSearch(Abs(a), Abs(b), 0, HALF_PI)
    IN IF b >= 0 THEN Sign(a) * base ELSE Sign(a) * (PI - base)

\* a / b cut towards zero, b > 0
Quot(a, b) == Sign(a) * (Abs(a) \div b)

\* the factor by which a vector is scaled down before its components are
\* squared, so that the squares stay within the integers of the model
Shrink(v) == Max(Abs(v[1]), Max(Abs(v[2]), Abs(v[3]))) \div 20000 + 1

\* THREE.Vector3.length()
Length(v) ==
    LET k == Shrink(v)
        a == Quot(v[1], k)
        b == Quot(v[2], k)
        c == Quot(v[3], k)
    IN k * Sqrt(a * a + b * b + c * c)

\* THREE.Vector3.normalize(): a vector of length 1.0 (the zero vector stays)
Normalize(v) ==
    LET k == Shrink(v)
        a == Quot(v[1], k)
        b == Quot(v[2], k)
        c == Quot(v[3], k)
        len == Sqrt(a * a + b * b + c * c)
    IN IF len = 0 THEN <<0, 0, 0>>
       ELSE <<Quot(a * ONE, len), Quot(b * ONE, len), Quot(c * ONE, len)>>

\* THREE.Matrix4.makeRotationX(a) applied to v
RotateX(v, a) ==
    <<v[1],
      MulFix(v[2], Cos(a)) - MulFix(v[3], Sin(a)),
      MulFix(v[2], Sin(a)) + MulFix(v[3], Cos(a))>>

\* THREE.Vector3.crossVectors(a, b); cross(a, b) of GLSL
Cross(a, b) ==
    <<Mul(a[2], b[3]) - Mul(a[3], b[2]),
      Mul(a[3], b[1]) - Mul(a[1], b[3]),
      Mul(a[1], b[2]) - Mul(a[2], b[1])>>

\* dot(a, b) of GLSL
Dot(a, b) == Mul(a[1], b[1]) + Mul(a[2], b[2]) + Mul(a[3], b[3])

\* THREE.Vector3.negate()
Negate(v) == <<-v[1], -v[2], -v[3]>>

----------------------------------------------------------------------------
(* Partial configuration records: a function from some field names to      *)
(* <<v>> (the value v) or <<>> (the field is present but undefined).       *)

Has(u, f) == f \in DOMAIN u /\ u[f] # <<>>

\* userConfig.f ?? d
OrElse(u, f, d) == IF Has(u, f) THEN u[f][1] ELSE d

NoUpdate == [f \in {} |-> <<>>]

ConfigFields ==
    {"quality", "cameraDistance", "fieldOfView", "enableOrbit", "orbitSpeed",
     "enableControls", "mouseSensitivity", "touchSensitivity", "enableZoom",
     "minDistance", "maxDistance", "showAccretionDisk", "useDiskTexture",
     "enableLorentzTransform", "enableDopplerShift", "enableBeaming",
     "bloomStrength", "bloomRadius", "bloomThreshold", "backgroundTextureUrl",
     "starTextureUrl", "diskTextureUrl", "resolutionScale", "onTexturesLoaded"}

\* Merge with defaults (BlackholeRenderer.constructor)
MergeDefaults(uc) ==
    [quality                |-> OrElse(uc, "quality", "medium"),
     cameraDistance         |-> OrElse(uc, "cameraDistance", 1000),
     fieldOfView            |-> OrElse(uc, "fieldOfView", 90),
     enableOrbit            |-> OrElse(uc, "enableOrbit", TRUE),
     orbitSpeed             |-> OrElse(uc, "orbitSpeed", 150000),
     enableControls         |-> OrElse(uc, "enableControls", FALSE),
     mouseSensitivity       |-> OrElse(uc, "mouseSensitivity", 2),
     touchSensitivity       |-> OrElse(uc, "touchSensitivity", 3),
     enableZoom             |-> OrElse(uc, "enableZoom", TRUE),
     minDistance            |-> OrElse(uc, "minDistance", 210),
     maxDistance            |-> OrElse(uc, "maxDistance", 5000),
     showAccretionDisk      |-> OrElse(uc, "showAccretionDisk", TRUE),
     useDiskTexture         |-> OrElse(uc, "useDiskTexture", TRUE),
     enableLorentzTransform |-> OrElse(uc, "enableLorentzTransform", TRUE),
     enableDopplerShift     |-> OrElse(uc, "enableDopplerShift", TRUE),
     enableBeaming          |-> OrElse(uc, "enableBeaming", TRUE),
     bloomStrength          |-> OrElse(uc, "bloomStrength", 50),
     bloomRadius            |-> OrElse(uc, "bloomRadius", 30),
     bloomThreshold         |-> OrElse(uc, "bloomThreshold", 80),
     backgroundTextureUrl   |-> OrElse(uc, "backgroundTextureUrl", ""),
     starTextureUrl         |-> OrElse(uc, "starTextureUrl", ""),
     diskTextureUrl         |-> OrElse(uc, "diskTextureUrl", ""),
     resolutionScale        |-> OrElse(uc, "resolutionScale", 100),
     onTexturesLoaded       |-> OrElse(uc, "onTexturesLoaded", FALSE)]

----------------------------------------------------------------------------
(* BlackholeObserver *)

\* this._r in the unit of the position vector
Radius(o) == o.r * 100

\* constructor(distance)
ObserverNew(distance) ==
    [r                |-> distance,
     theta            |-> 0,
     angularVelocity  |-> 0,
     maxAngularVelocity |-> MaxAngularVelocity(distance),
     moving           |-> FALSE,
     manualControl    |-> FALSE,
     manualPitch      |-> 0,
     manualYaw        |-> 0,
     position         |-> <<0, 0, distance * 100>>,
     velocity         |-> <<0, 0, 0>>,
     direction        |-> <<0, 0, -ONE>>,
     up               |-> <<0, ONE, 0>>,
     fov              |-> OBSERVER_FOV,
     time             |-> 0]

\* updatePosition(), manual branch: the position on the sphere
ManualPosition(o) ==
    LET ring == MulFix(Radius(o), Cos(o.manualPitch))
    IN <<MulFix(ring, Sin(o.manualYaw)),
         MulFix(Radius(o), Sin(o.manualPitch)),
         MulFix(ring, Cos(o.manualYaw))>>

\* updatePosition(), orbit branch: the position on the inclined circle
OrbitPosition(o) ==
    RotateX(<<MulFix(Radius(o), Sin(o.theta)), 0, MulFix(Radius(o), Cos(o.theta))>>,
            INCLINE)

\* updatePosition(), orbit branch: the velocity along the inclined circle
OrbitVelocity(o) ==
    RotateX(<<MulFix(o.angularVelocity, Cos(o.theta)), 0,
              -MulFix(o.angularVelocity, Sin(o.theta))>>,
            INCLINE)

\* updatePosition(): right = direction x worldUp, up = right x direction
UpVector(dir) == Normalize(Cross(Normalize(Cross(dir, <<0, ONE, 0>>)), dir))

\* updatePosition() without the line that derives this.direction
UpdatePositionStaleDirection(o) ==
    LET pos == IF o.manualControl THEN ManualPosition(o) ELSE OrbitPosition(o)
        vel == IF o.manualControl THEN <<0, 0, 0>> ELSE OrbitVelocity(o)
    IN [o EXCEPT !.position = pos, !.velocity = vel]

\* updatePosition()
UpdatePosition(o) ==
    LET pos == IF o.manualControl THEN ManualPosition(o) ELSE OrbitPosition(o)
        vel == IF o.manualControl THEN <<0, 0, 0>> ELSE OrbitVelocity(o)
        dir == Normalize(Negate(pos))
    IN [o EXCEPT !.position = pos,
                 !.velocity = vel,
                 !.direction = dir,
                 !.up = UpVector(dir)]

\* set distance(value) without the Math.max
SetDistanceNoClamp(o, value) ==
    UpdatePosition([o EXCEPT !.r = value,
                             !.maxAngularVelocity = MaxAngularVelocity(value)])

\* set distance(value)
SetDistance(o, value) ==
    LET r == Max(value, MIN_R)
    IN UpdatePosition([o EXCEPT !.r = r,
                                !.maxAngularVelocity = MaxAngularVelocity(r)])

\* set orbitSpeed(value)
SetOrbitSpeed(o, value) ==
    [o EXCEPT !.angularVelocity = Min(Abs(value), o.maxAngularVelocity)]

\* set moving(value)
SetMoving(o, value) == [o EXCEPT !.moving = value]

\* set manualControl(value) with the arguments of Math.atan2 exchanged
SetManualControlSwapped(o, value) ==
    LET currentPos == Normalize(o.position)
    IN IF value
       THEN [o EXCEPT !.manualControl = TRUE,
                      !.manualYaw = Atan2(currentPos[3], currentPos[1]),
                      !.manualPitch = Asin(currentPos[2])]
       ELSE [o EXCEPT !.manualControl = FALSE]

\* set manualControl(value)
SetManualControl(o, value) ==
    LET currentPos == Normalize(o.position)
    IN IF value
       THEN [o EXCEPT !.manualControl = TRUE,
                      !.manualYaw = Atan2(currentPos[1], currentPos[3]),
                      !.manualPitch = Asin(currentPos[2])]
       ELSE [o EXCEPT !.manualControl = FALSE]

\* setManualAngles(pitch, yaw) without the clamp of the pitch
SetManualAnglesNoClamp(o, pitch, yaw) ==
    LET o2 == [o EXCEPT !.manualPitch = pitch, !.manualYaw = yaw]
    IN IF o.manualControl THEN UpdatePosition(o2) ELSE o2

\* setManualAngles(pitch, yaw)
SetManualAngles(o, pitch, yaw) ==
    LET o2 == [o EXCEPT
                 !.manualPitch = Max(-HALF_PI + PITCH_MARGIN,
                                     Min(HALF_PI - PITCH_MARGIN, pitch)),
                 !.manualYaw = yaw]
    IN IF o.manualControl THEN UpdatePosition(o2) ELSE o2

\* addManualAngles(deltaPitch, deltaYaw)
AddManualAngles(o, deltaPitch, deltaYaw) ==
    SetManualAngles(o, o.manualPitch + deltaPitch, o.manualYaw + deltaYaw)

\* the angular-velocity ramp of update(delta): delta / this._r
RampStep(o, delta) == (delta * 100000) \div o.r

\* update(delta): this._theta + this._angularVelocity * delta, modulo 2 pi
ThetaStep(o, delta) ==
    Rem(o.theta + Quot(o.angularVelocity * delta, 100000), TWO_PI)

\* update(delta) with the orbit step taken in manual mode too
ObserverUpdateOrbiting(o, delta) ==
    LET w == o.angularVelocity
        w2 == IF o.moving
              THEN (IF w < o.maxAngularVelocity
                    THEN w + RampStep(o, delta)
                    ELSE o.maxAngularVelocity)
              ELSE (IF w > 0
                    THEN w - RampStep(o, delta)
                    ELSE 0)
    IN [UpdatePosition([o EXCEPT !.angularVelocity = w2,
                                 !.theta = ThetaStep(o, delta)])
          EXCEPT !.time = o.time + delta]

\* update(delta)
ObserverUpdate(o, delta) ==
    LET w == o.angularVelocity
        w2 == IF o.manualControl THEN w
              ELSE IF o.moving
                   THEN (IF w < o.maxAngularVelocity
                         THEN w + RampStep(o, delta)
                         ELSE o.maxAngularVelocity)
                   ELSE (IF w > 0
                         THEN w - RampStep(o, delta)
                         ELSE 0)
        th == IF o.manualControl THEN o.theta ELSE ThetaStep(o, delta)
    IN [UpdatePosition([o EXCEPT !.angularVelocity = w2, !.theta = th])
          EXCEPT !.time = o.time + delta]

----------------------------------------------------------------------------
(* CameraControls *)

\* field initialisers and constructor (setupEventListeners attaches the listeners)
ControlsNew ==
    [enabled           |-> FALSE,
     mouseSensitivity  |-> 2,
     touchSensitivity  |-> 3,
     enableZoom        |-> TRUE,
     minDistance       |-> 210,
     maxDistance       |-> 5000,
     isDragging        |-> FALSE,
     lastMouseX        |-> 0,
     lastMouseY        |-> 0,
     lastTouchDistance |-> 0,
     attached          |-> TRUE]

\* setEnabled(enabled): the controls' side
SetEnabled(c, enabled) ==
    [c EXCEPT !.enabled = enabled,
              !.isDragging = IF enabled THEN c.isDragging ELSE FALSE]

\* setDistanceRange(min, max)
SetDistanceRange(c, min, max) ==
    [c EXCEPT !.minDistance = Max(min, MIN_RANGE), !.maxDistance = max]

\* Math.max(this.minDistance, Math.min(this.maxDistance, newDistance))
ClampZoom(c, newDistance) == Max(c.minDistance, Min(c.maxDistance, newDistance))

----------------------------------------------------------------------------
(* Textures *)

Slots == {"background", "star", "disk"}

UrlField(slot) ==
    CASE slot = "background" -> "backgroundTextureUrl"
      [] slot = "star"       -> "starTextureUrl"
      [] slot = "disk"       -> "diskTextureUrl"

TextureUniform(slot) ==
    CASE slot = "background" -> "uBackgroundTexture"
      [] slot = "star"       -> "uStarDataTexture"
      [] slot = "disk"       -> "uDiskTexture"

\* the texture objects a renderer can hold: the procedural one made by
\* createUniforms and the one delivered by the loader, per slot
TextureIds == Slots \X {"procedural", "loaded"}

\* { value: this.observer.<field> }: the uniform's value is the observer's own
\* Vector3 object, so it reads whatever the observer writes into that object
SharedVector(field) == [shared |-> TRUE, field |-> field, own |-> <<0, 0, 0>>]

\* the vector the shading program reads from the camera uniform `name`
CameraValue(u, o, name) == IF u[name].shared THEN o[u[name].field] ELSE u[name].own

\* uniform.value.copy(v): writes v into the uniform's Vector3 object; a copy of
\* the observer's vector into itself changes nothing
CopyVector(uniform, v) == IF uniform.shared THEN uniform ELSE [uniform EXCEPT !.own = v]

\* createUniforms() handing the uniforms clones of the observer's vectors
CreateUniformsCloned(cfg) ==
    [uTime                   |-> 0,
     uCameraPosition         |-> [shared |-> FALSE, field |-> "",
                                  own |-> ObserverNew(cfg.cameraDistance).position],
     uCameraVelocity         |-> [shared |-> FALSE, field |-> "",
                                  own |-> ObserverNew(cfg.cameraDistance).velocity],
     uCameraDirection        |-> [shared |-> FALSE, field |-> "",
                                  own |-> ObserverNew(cfg.cameraDistance).direction],
     uCameraUp               |-> [shared |-> FALSE, field |-> "",
                                  own |-> ObserverNew(cfg.cameraDistance).up],
     uFieldOfView            |-> cfg.fieldOfView,
     uShowAccretionDisk      |-> cfg.showAccretionDisk,
     uEnableLorentzTransform |-> cfg.enableLorentzTransform,
     uEnableDopplerShift     |-> cfg.enableDopplerShift,
     uEnableRelBeaming       |-> cfg.enableBeaming,
     uUseDiskTexture         |-> IF cfg.diskTextureUrl # "" THEN FALSE
                                 ELSE cfg.useDiskTexture,
     uBackgroundTexture      |-> "procedural",
     uStarDataTexture        |-> "procedural",
     uDiskTexture            |-> "procedural"]

\* createUniforms()
CreateUniforms(cfg) ==
    [uTime                   |-> 0,
     uCameraPosition         |-> SharedVector("position"),
     uCameraVelocity         |-> SharedVector("velocity"),
     uCameraDirection        |-> SharedVector("direction"),
     uCameraUp               |-> SharedVector("up"),
     uFieldOfView            |-> cfg.fieldOfView,
     uShowAccretionDisk      |-> cfg.showAccretionDisk,
     uEnableLorentzTransform |-> cfg.enableLorentzTransform,
     uEnableDopplerShift     |-> cfg.enableDopplerShift,
     uEnableRelBeaming       |-> cfg.enableBeaming,
     uUseDiskTexture         |-> IF cfg.diskTextureUrl # "" THEN FALSE
                                 ELSE cfg.useDiskTexture,
     uBackgroundTexture      |-> "procedural",
     uStarDataTexture        |-> "procedural",
     uDiskTexture            |-> "procedural"]

\* createComposer(): the parameters given to the UnrealBloomPass
CreateComposer(cfg) ==
    [bloomStrength   |-> cfg.bloomStrength,
     bloomRadius     |-> cfg.bloomRadius,
     bloomThreshold  |-> cfg.bloomThreshold]

\* loadTextures(): texturesToLoad, loadedCount and the synchronous callback
LoadTextures(cfg) ==
    LET requested == {s \in Slots : cfg[UrlField(s)] # ""}
    IN [state       |-> [s \in Slots |-> IF s \in requested THEN "pending" ELSE "none"],
        toLoad      |-> Cardinality(requested),
        loadedCount |-> 0,
        calls       |-> IF requested = {} /\ cfg.onTexturesLoaded THEN 1 ELSE 0]

\* checkAllLoaded()
CheckAllLoaded(t, cfg) ==
    [t EXCEPT !.loadedCount = t.loadedCount + 1,
              !.calls = IF t.loadedCount + 1 >= t.toLoad /\ cfg.onTexturesLoaded
                        THEN t.calls + 1 ELSE t.calls]

----------------------------------------------------------------------------
(* BlackholeRenderer: construction *)

NoFrame == [by |-> "none", fov |-> 0, useDiskTexture |-> FALSE]

\* QUALITY_PRESETS: integrationSteps, and stepSize as toFixed(4) prints it
QUALITY_PRESETS ==
    [low    |-> [integrationSteps |-> 300,  stepSize |-> 1000],
     medium |-> [integrationSteps |-> 600,  stepSize |-> 500],
     high   |-> [integrationSteps |-> 1000, stepSize |-> 200],
     ultra  |-> [integrationSteps |-> 1500, stepSize |-> 150]]

\* createShaderMesh() that compiles the medium preset whatever the name
CreateShaderMeshMedium(cfg) ==
    IF cfg.quality \in DOMAIN QUALITY_PRESETS
    THEN <<QUALITY_PRESETS["medium"]>>
    ELSE <<>>

\* createShaderMesh() with the medium preset for a name without a preset
CreateShaderMeshFallback(cfg) ==
    IF cfg.quality \in DOMAIN QUALITY_PRESETS
    THEN <<QUALITY_PRESETS[cfg.quality]>>
    ELSE <<QUALITY_PRESETS["medium"]>>

\* createShaderMesh(): <<preset>> with the STEP and NSTEPS compiled into the
\* shader, or <<>> when quality.stepSize.toFixed throws the TypeError (for a
\* name without a preset the lookup gives undefined, for a name inherited from
\* Object.prototype a value without stepSize)
CreateShaderMesh(cfg) ==
    IF cfg.quality \in DOMAIN QUALITY_PRESETS
    THEN <<QUALITY_PRESETS[cfg.quality]>>
    ELSE <<>>

\* loadTextures() not reached
NoTextures ==
    [state       |-> [s \in Slots |-> "none"],
     toLoad      |-> 0,
     loadedCount |-> 0,
     calls       |-> 0]

\* the observer the constructor leaves: new BlackholeObserver, orbitSpeed, and
\* the manualControl that controls.setEnabled assigns
ConstructorObserver(cfg) ==
    SetManualControl(SetOrbitSpeed(ObserverNew(cfg.cameraDistance), cfg.orbitSpeed),
                     cfg.enableControls)

\* no fragment is being shaded
NoRay == [pc |-> "idle"]

\* a BlackholeBackground component that is not in the tree: useRef(null)
Unmounted ==
    [mounted |-> FALSE, rendererRef |-> NULL, props |-> NoUpdate,
     renderers |-> <<>>, mounts |-> 0, renders |-> 0]

\* the state the constructor leaves, with observer o; a TypeError thrown by
\* createShaderMesh ends it before setupResizeObserver and loadTextures
Constructed(uc, o) ==
    LET cfg == MergeDefaults(uc)
        mesh == CreateShaderMesh(cfg)
        c1  == SetEnabled(ControlsNew, cfg.enableControls)
        c2  == [c1 EXCEPT !.mouseSensitivity = cfg.mouseSensitivity,
                          !.touchSensitivity = cfg.touchSensitivity,
                          !.enableZoom = cfg.enableZoom]
    IN /\ config = cfg
       /\ obs = o
       /\ ctl = SetDistanceRange(c2, cfg.minDistance, cfg.maxDistance)
       /\ uni = CreateUniforms(cfg)
       /\ loop = [animationId |-> NULL, pending |-> {}, nextId |-> 1, lastTime |-> 0]
       /\ now = 0
       /\ ray = NoRay
       /\ comp = Unmounted
       /\ tex = IF mesh = <<>> THEN NoTextures ELSE LoadTextures(cfg)
       /\ res = [error          |-> IF mesh = <<>> THEN "TypeError" ELSE "",
                 mesh           |-> mesh,
                 resizeObserver |-> mesh # <<>>,
                 listeners      |-> 0,
                 renderer       |-> 0,
                 composer       |-> 0,
                 bloomPass      |-> CreateComposer(cfg),
                 textures       |-> [t \in TextureIds |-> 0]]
       /\ hist = [op |-> "constructor", update |-> uc, frame |-> NoFrame,
                  drew |-> FALSE, tickId |-> 0, stale |-> {},
                  disposeCalls |-> 0, setConfigCalls |-> 0, inputs |-> 0,
                  held |-> <<>>, mouseDown |-> FALSE]

\* constructor(userConfig)
Constructor(uc) == Constructed(uc, ConstructorObserver(MergeDefaults(uc)))

----------------------------------------------------------------------------
(* BlackholeRenderer: the frame loop *)

\* history: the position the camera has to keep, <<p>> from a switch out of
\* orbit position p into manual mode until the radius changes or `moved`
\* (an angle input, a frame of orbit motion), <<>> otherwise
Held(o, o2, moved) ==
    IF o2.r # o.r \/ moved THEN <<>>
    ELSE IF ~o.manualControl /\ o2.manualControl
         THEN (IF o.position = OrbitPosition(o) THEN <<o.position>> ELSE <<>>)
         ELSE hist.held

\* history of an operation that draws no frame
Did(opName, u) == [hist EXCEPT !.op = opName, !.update = u, !.drew = FALSE]

\* what composer.render() draws with
Frame(by, u) == [by |-> by, fov |-> u.uFieldOfView, useDiskTexture |-> u.uUseDiskTexture]

\* (currentTime - this.lastTime) / 1000 without the Math.min
DeltaTimeUnclamped(currentTime, lastTime) == currentTime - lastTime

\* Math.min((currentTime - this.lastTime) / 1000, 0.1)
DeltaTime(currentTime, lastTime) == Min(currentTime - lastTime, MAX_DELTA)

\* animate(currentTime), run with `pend` the callbacks still pending and
\* `lastTime` the value of this.lastTime on entry
Animate(currentTime, lastTime, pend, opName, id) ==
    LET deltaTime == DeltaTime(currentTime, lastTime)
        o1 == SetMoving(obs, config.enableOrbit /\ ~obs.manualControl)
        o2 == ObserverUpdate(o1, deltaTime)
        u1 == [uni EXCEPT !.uTime = Rem(uni.uTime + deltaTime, TIME_WRAP),
                          !.uCameraPosition = CopyVector(@, o2.position),
                          !.uCameraVelocity = CopyVector(@, o2.velocity),
                          !.uCameraDirection = CopyVector(@, o2.direction),
                          !.uFieldOfView = obs.fov]
    IN /\ loop.nextId <= MaxHandle
       /\ loop' = [animationId |-> loop.nextId,
                   pending     |-> pend \cup {loop.nextId},
                   nextId      |-> loop.nextId + 1,
                   lastTime    |-> currentTime]
       /\ obs' = o2
       /\ uni' = u1
       /\ hist' = [Did(opName, NoUpdate) EXCEPT
                    !.drew = TRUE, !.frame = Frame("animate", u1), !.tickId = id,
                    !.held = Held(obs, obs', ~obs.manualControl
                                             /\ obs.angularVelocity # 0)]
       /\ UNCHANGED <<config, ctl, tex, res, ray, comp>>

\* start() without the check of this.animationId
StartNoGuard ==
    /\ Animate(now, now, loop.pending, "start", 0)
    /\ UNCHANGED now

\* start()
Start ==
    IF loop.animationId # NULL
    THEN /\ hist' = Did("start", NoUpdate)
         /\ UNCHANGED <<config, obs, ctl, uni, loop, now, tex, res, ray, comp>>
    ELSE /\ Animate(now, now, loop.pending, "start", 0)
         /\ UNCHANGED now

\* stop() that forgets cancelAnimationFrame
StopLoopNoCancel(l) == [l EXCEPT !.animationId = NULL]

\* the body of stop(): cancelAnimationFrame(this.animationId) takes the callback
\* out of the browser's list
StopLoop(l) ==
    IF l.animationId # NULL
    THEN [l EXCEPT !.pending = l.pending \ {l.animationId}, !.animationId = NULL]
    ELSE l

\* stop()
Stop ==
    /\ loop' = StopLoop(loop)
    /\ hist' = [Did("stop", NoUpdate) EXCEPT !.stale = hist.stale \cup loop.pending]
    /\ UNCHANGED <<config, obs, ctl, uni, now, tex, res, ray, comp>>

\* the display refresh runs a pending frame callback, gap ms after the clock's
\* last reading
Tick(gap) ==
    \E id \in loop.pending :
        /\ now' = now + gap
        /\ Animate(now + gap, loop.lastTime, loop.pending \ {id}, "tick", id)

\* the display refresh runs the callback that start() scheduled, with a frame
\* timestamp `lead` ms before the performance.now() that start() recorded
EarlyTick(lead) ==
    \E id \in loop.pending :
        /\ hist.tickId = 0
        /\ loop.lastTime = now
        /\ Animate(now - lead, loop.lastTime, loop.pending \ {id}, "tick", id)
        /\ UNCHANGED now

\* renderFrame()
RenderFrame ==
    /\ hist' = [Did("renderFrame", NoUpdate) EXCEPT !.drew = TRUE,
                                          !.frame = Frame("renderFrame", uni)]
    /\ UNCHANGED <<config, obs, ctl, uni, loop, now, tex, res, ray, comp>>

----------------------------------------------------------------------------
(* BlackholeRenderer.setConfig(updates) *)

\* the fields setConfig writes to this.config when present
AppliedFields ==
    {"cameraDistance", "orbitSpeed", "enableOrbit", "enableControls",
     "mouseSensitivity", "touchSensitivity", "enableZoom", "fieldOfView",
     "showAccretionDisk", "enableLorentzTransform", "enableDopplerShift",
     "enableBeaming"}

\* a range that falls back to the constructor's defaults
DistanceRangeDefaults(u, cfg) ==
    <<OrElse(u, "minDistance", 210), OrElse(u, "maxDistance", 5000)>>

\* updates.minDistance ?? this.config.minDistance, and the same for maxDistance
DistanceRange(u, cfg) ==
    <<OrElse(u, "minDistance", cfg.minDistance),
      OrElse(u, "maxDistance", cfg.maxDistance)>>

\* the assignments to this.config
ConfigAfter(u, cfg) ==
    [f \in DOMAIN cfg |->
        IF f \in AppliedFields /\ Has(u, f) THEN u[f][1]
        ELSE IF f = "minDistance" /\ (Has(u, "minDistance") \/ Has(u, "maxDistance"))
             THEN DistanceRange(u, cfg)[1]
        ELSE IF f = "maxDistance" /\ (Has(u, "minDistance") \/ Has(u, "maxDistance"))
             THEN DistanceRange(u, cfg)[2]
        ELSE cfg[f]]

\* the calls on this.observer, in the order of the code
ObserverAfter(u, o) ==
    LET o1 == IF Has(u, "cameraDistance")
              THEN SetDistance(o, u["cameraDistance"][1]) ELSE o
        o2 == IF Has(u, "orbitSpeed")
              THEN SetOrbitSpeed(o1, u["orbitSpeed"][1]) ELSE o1
        o3 == IF Has(u, "enableOrbit")
              THEN SetMoving(o2, u["enableOrbit"][1] /\ ~o2.manualControl) ELSE o2
    IN IF Has(u, "enableControls")
       THEN SetManualControl(o3, u["enableControls"][1]) ELSE o3

\* the calls on this.controls, in the order of the code
ControlsAfter(u, c, cfg) ==
    LET c1 == IF Has(u, "enableControls")
              THEN SetEnabled(c, u["enableControls"][1]) ELSE c
        c2 == IF Has(u, "mouseSensitivity")
              THEN [c1 EXCEPT !.mouseSensitivity = u["mouseSensitivity"][1]] ELSE c1
        c3 == IF Has(u, "touchSensitivity")
              THEN [c2 EXCEPT !.touchSensitivity = u["touchSensitivity"][1]] ELSE c2
        c4 == IF Has(u, "enableZoom")
              THEN [c3 EXCEPT !.enableZoom = u["enableZoom"][1]] ELSE c3
    IN IF Has(u, "minDistance") \/ Has(u, "maxDistance")
       THEN SetDistanceRange(c4, DistanceRange(u, cfg)[1], DistanceRange(u, cfg)[2])
       ELSE c4

\* the assignments to this.uniforms
UniformsAfter(u, un) ==
    [un EXCEPT
       !.uFieldOfView = OrElse(u, "fieldOfView", @),
       !.uShowAccretionDisk = OrElse(u, "showAccretionDisk", @),
       !.uEnableLorentzTransform = OrElse(u, "enableLorentzTransform", @),
       !.uEnableDopplerShift = OrElse(u, "enableDopplerShift", @),
       !.uEnableRelBeaming = OrElse(u, "enableBeaming", @)]

SetConfig(u) ==
    /\ hist.setConfigCalls < MaxSetConfig
    /\ config' = ConfigAfter(u, config)
    /\ obs' = ObserverAfter(u, obs)
    /\ ctl' = ControlsAfter(u, ctl, config)
    /\ uni' = UniformsAfter(u, uni)
    /\ hist' = [Did("setConfig", u) EXCEPT !.setConfigCalls = @ + 1,
                                           !.held = Held(obs, obs', FALSE),
                                           !.mouseDown = @ /\ ctl'.enabled]
    /\ UNCHANGED <<loop, now, tex, res, ray, comp>>

----------------------------------------------------------------------------
(* CameraControls: zoom input *)

\* onWheel(event), deltaY the event's deltaY
Wheel(deltaY) ==
    /\ hist.inputs < MaxInputs
    /\ obs' = IF ~ctl.enabled \/ ~ctl.enableZoom THEN obs
              ELSE LET delta == IF deltaY > 0 THEN 1 ELSE -1
                   IN SetDistance(obs, ClampZoom(ctl, obs.r + delta * ZOOM_SPEED))
    /\ hist' = [Did("wheel", NoUpdate) EXCEPT !.inputs = @ + 1,
                                              !.held = Held(obs, obs', FALSE)]
    /\ UNCHANGED <<config, ctl, uni, loop, now, tex, res, ray, comp>>

\* onTouchStart(event) with two touches d pixels apart
TouchStart(d) ==
    /\ hist.inputs < MaxInputs
    /\ ctl' = IF ctl.enabled /\ ctl.enableZoom
              THEN [ctl EXCEPT !.lastTouchDistance = d] ELSE ctl
    /\ hist' = [Did("touchstart", NoUpdate) EXCEPT !.inputs = @ + 1]
    /\ UNCHANGED <<config, obs, uni, loop, now, tex, res, ray, comp>>

\* this.observer.distance / (currentDistance / this.lastTouchDistance);
\* a zero currentDistance gives Infinity, which Math.min cuts to maxDistance
PinchDistance(c, r, currentDistance) ==
    IF currentDistance = 0 THEN c.maxDistance
    ELSE (r * c.lastTouchDistance) \div currentDistance

\* onTouchMove(event) with two touches d pixels apart
TouchMove(d) ==
    /\ hist.inputs < MaxInputs
    /\ IF ctl.enabled /\ ctl.enableZoom
       THEN /\ obs' = IF ctl.lastTouchDistance > 0
                      THEN SetDistance(obs, ClampZoom(ctl, PinchDistance(ctl, obs.r, d)))
                      ELSE obs
            /\ ctl' = [ctl EXCEPT !.lastTouchDistance = d]
       ELSE UNCHANGED <<obs, ctl>>
    /\ hist' = [Did("touchmove", NoUpdate) EXCEPT !.inputs = @ + 1,
                                                  !.held = Held(obs, obs', FALSE)]
    /\ UNCHANGED <<config, uni, loop, now, tex, res, ray, comp>>

----------------------------------------------------------------------------
(* CameraControls: drag input; BlackholeRenderer.setLookAngles *)

\* -delta * sensitivity: pixels times a sensitivity, as an angle
DragAngle(delta, sensitivity) == -delta * sensitivity * 10

\* the drag of onMouseMove and of the one-finger onTouchMove
Drag(x, y, sensitivity) ==
    /\ obs' = AddManualAngles(obs, DragAngle(y - ctl.lastMouseY, sensitivity),
                                   DragAngle(x - ctl.lastMouseX, sensitivity))
    /\ ctl' = [ctl EXCEPT !.lastMouseX = x, !.lastMouseY = y]

\* onMouseDown(event) at clientX x, clientY y
MouseDown(x, y) ==
    /\ hist.inputs < MaxInputs
    /\ ctl' = IF ctl.enabled
              THEN [ctl EXCEPT !.isDragging = TRUE, !.lastMouseX = x, !.lastMouseY = y]
              ELSE ctl
    /\ hist' = [Did("mousedown", NoUpdate) EXCEPT !.inputs = @ + 1,
                                                  !.mouseDown = TRUE]
    /\ UNCHANGED <<config, obs, uni, loop, now, tex, res, ray, comp>>

\* onMouseMove(event) at clientX x, clientY y
MouseMove(x, y) ==
    /\ hist.inputs < MaxInputs
    /\ IF ctl.enabled /\ ctl.isDragging
       THEN Drag(x, y, ctl.mouseSensitivity)
       ELSE UNCHANGED <<obs, ctl>>
    /\ hist' = [Did("mousemove", NoUpdate) EXCEPT !.inputs = @ + 1,
                                                  !.held = Held(obs, obs', obs'.manualPitch # obs.manualPitch
                                             \/ obs'.manualYaw # obs.manualYaw)]
    /\ UNCHANGED <<config, uni, loop, now, tex, res, ray, comp>>

\* onMouseUp()
MouseUp ==
    /\ hist.inputs < MaxInputs
    /\ ctl' = IF ctl.enabled THEN [ctl EXCEPT !.isDragging = FALSE] ELSE ctl
    /\ hist' = [Did("mouseup", NoUpdate) EXCEPT !.inputs = @ + 1,
                                                !.mouseDown = FALSE]
    /\ UNCHANGED <<config, obs, uni, loop, now, tex, res, ray, comp>>

\* onTouchStart(event) with one touch at clientX x, clientY y
TouchDragStart(x, y) ==
    /\ hist.inputs < MaxInputs
    /\ ctl' = IF ctl.enabled
              THEN [ctl EXCEPT !.isDragging = TRUE, !.lastMouseX = x, !.lastMouseY = y]
              ELSE ctl
    /\ hist' = [Did("touchstart", NoUpdate) EXCEPT !.inputs = @ + 1]
    /\ UNCHANGED <<config, obs, uni, loop, now, tex, res, ray, comp>>

\* onTouchMove(event) with one touch at clientX x, clientY y
TouchDrag(x, y) ==
    /\ hist.inputs < MaxInputs
    /\ IF ctl.enabled /\ ctl.isDragging
       THEN Drag(x, y, ctl.touchSensitivity)
       ELSE UNCHANGED <<obs, ctl>>
    /\ hist' = [Did("touchmove", NoUpdate) EXCEPT !.inputs = @ + 1,
                                                  !.held = Held(obs, obs', obs'.manualPitch # obs.manualPitch
                                             \/ obs'.manualYaw # obs.manualYaw)]
    /\ UNCHANGED <<config, uni, loop, now, tex, res, ray, comp>>

\* onTouchEnd(event) with no touch left
TouchEnd ==
    /\ hist.inputs < MaxInputs
    /\ ctl' = IF ctl.enabled
              THEN [ctl EXCEPT !.isDragging = FALSE, !.lastTouchDistance = 0]
              ELSE ctl
    /\ hist' = [Did("touchend", NoUpdate) EXCEPT !.inputs = @ + 1]
    /\ UNCHANGED <<config, obs, uni, loop, now, tex, res, ray, comp>>

\* BlackholeRenderer.setLookAngles(pitch, yaw)
SetLookAngles(pitch, yaw) ==
    /\ hist.inputs < MaxInputs
    /\ obs' = SetManualAngles(obs, pitch, yaw)
    /\ hist' = [Did("setLookAngles", NoUpdate) EXCEPT !.inputs = @ + 1,
                                                      !.held = Held(obs, obs', TRUE)]
    /\ UNCHANGED <<config, ctl, uni, loop, now, tex, res, ray, comp>>

----------------------------------------------------------------------------
(* Texture loads settle: the onLoad callbacks of loadTextures; no onError  *)
(* callback is passed to loader.load                                       *)

\* an onLoad callback that assigns the delivered texture to every slot
TextureLoadedEverywhere(slot) ==
    /\ tex.state[slot] = "pending"
    /\ tex' = CheckAllLoaded([tex EXCEPT !.state[slot] = "loaded"], config)
    /\ uni' = [uni EXCEPT !.uBackgroundTexture = "loaded",
                          !.uStarDataTexture = "loaded",
                          !.uDiskTexture = "loaded",
                          !.uUseDiskTexture = IF slot = "disk" THEN TRUE ELSE @]
    /\ hist' = Did("textureLoaded", NoUpdate)
    /\ UNCHANGED <<config, obs, ctl, loop, now, res, ray, comp>>

\* the onLoad callback of the load of `slot`
TextureLoaded(slot) ==
    /\ tex.state[slot] = "pending"
    /\ tex' = CheckAllLoaded([tex EXCEPT !.state[slot] = "loaded"], config)
    /\ uni' = [uni EXCEPT ![TextureUniform(slot)] = "loaded",
                          !.uUseDiskTexture = IF slot = "disk" THEN TRUE ELSE @]
    /\ hist' = Did("textureLoaded", NoUpdate)
    /\ UNCHANGED <<config, obs, ctl, loop, now, res, ray, comp>>

\* the load of `slot` fails: no callback runs
TextureFailed(slot) ==
    /\ tex.state[slot] = "pending"
    /\ tex' = [tex EXCEPT !.state[slot] = "failed"]
    /\ hist' = Did("textureFailed", NoUpdate)
    /\ UNCHANGED <<config, obs, ctl, uni, loop, now, res, ray, comp>>

----------------------------------------------------------------------------
(* BlackholeRenderer.dispose() *)

\* the textures held by the uniforms
HeldTextures(un) == {<<s, un[TextureUniform(s)]>> : s \in Slots}

Dispose ==
    /\ hist.disposeCalls < MaxDisposeCalls
    \* this.stop()
    /\ loop' = StopLoop(loop)
    \* this.controls.dispose(): removeEventListener detaches an attached listener
    /\ ctl' = [ctl EXCEPT !.attached = FALSE]
    /\ res' = [res EXCEPT
                 \* if (this.resizeObserver) { disconnect(); = null }
                 !.resizeObserver = FALSE,
                 !.listeners = IF ctl.attached THEN @ + 1 ELSE @,
                 \* this.renderer.dispose(); this.composer.dispose()
                 !.renderer = @ + 1,
                 !.composer = @ + 1,
                 \* textures.forEach((tex) => tex?.dispose?.())
                 !.textures = [t \in TextureIds |->
                                 IF t \in HeldTextures(uni) THEN @[t] + 1 ELSE @[t]]]
    /\ hist' = [Did("dispose", NoUpdate) EXCEPT !.stale = hist.stale \cup loop.pending,
                            !.disposeCalls = @ + 1]
    /\ UNCHANGED <<config, obs, uni, now, tex, ray, comp>>

----------------------------------------------------------------------------
(* The fragment shader (shaders/blackhole.frag.glsl): main() for one pixel. *)
(* Points in 1e-4 Rs, directions and velocities in 1e-4, STEP in 1e-4.      *)

DISK_IN == 20000              \* 2.0
DISK_WIDTH == 40000           \* 4.0

\* tan(a)
Tan(a) == Quot(Sin(a) * ONE, Cos(a))

\* tan(uFieldOfView / 2.0 * DEG_TO_RAD), the field of view in degrees
UvFov(fov) == Tan((fov * PI) \div 360)

\* a * v for a vector v
Scale(a, v) == <<Mul(a, v[1]), Mul(a, v[2]), Mul(a, v[3])>>

Add(a, b) == <<a[1] + b[1], a[2] + b[2], a[3] + b[3]>>

\* 1.0 / a
Inverse(a) == Quot(ONE * ONE, a)

\* sqrt(a) of a fixed-point number
Root(a) == Sqrt(a * ONE)

\* lorentzTransformVelocity(u, v)
LorentzTransformVelocity(u, v) ==
    IF Length(v) > 0
    THEN LET gamma == Inverse(Root(ONE - Dot(v, v)))
             denominator == ONE - Dot(v, u)
             k == Mul(Quot(gamma * ONE, gamma + ONE), Dot(u, v))
             w == Add(Add(Scale(Inverse(gamma), u), Negate(v)), Scale(k, v))
         IN <<Quot(w[1] * ONE, denominator),
              Quot(w[2] * ONE, denominator),
              Quot(w[3] * ONE, denominator)>>
    ELSE u

\* main(), lines 101-111: the direction of the ray through the pixel at uv
\* (uv after the aspect scaling) for a camera at direction dir with up vector up
PixelDirection(dir, up, fov, uv) ==
    LET forward == Normalize(dir)
        nright == Normalize(Cross(forward, Normalize(up)))
        up2 == Cross(nright, forward)
        uvfov == UvFov(fov)
    IN Normalize(Add(forward, Add(Scale(Mul(uv[1], uvfov), nright),
                                   Scale(Mul(uv[2], uvfov), up2))))

\* uCameraVelocity: the observer's velocity vector in the shader's unit
CameraVelocity(o) ==
    <<Quot(o.velocity[1], 100), Quot(o.velocity[2], 100), Quot(o.velocity[3], 100)>>

\* rayGamma * (1.0 + dot(rayDir, -uCameraVelocity))
RayDopplerFactor(rayDir, v) ==
    Mul(Inverse(Root(ONE - Dot(v, v))), ONE + Dot(rayDir, Negate(v)))

\* rayIntensity: 1.0, divided by pow(rayDopplerFactor, 3.0) with beaming
RayIntensity(beaming, factor) ==
    IF beaming THEN Quot(ONE * ONE, Mul(factor, Mul(factor, factor))) ELSE ONE

\* vec4 color = vec4(0.0, 0.0, 0.0, 1.0): the contributions added so far are
\* counted, `alpha` counts the whole alphas (the initial one and the horizon's)
InitialColor == [disk |-> 0, alpha |-> 1, star |-> FALSE, background |-> FALSE]

\* main(), lines 101-131, for the uniforms of observer o and uniforms u and the
\* defines of preset: the state on entry to the loop. History: `start` the
\* camera position, `divided` a division by a zero velocity.y was made, `below`
\* the distance was below 1.0 after some step, `hits` the disk crossings
\* recorded, `crossing` the plane test of the last step (its radius and
\* outcome) when the step made one
RayStart(o, u, preset, uv) ==
    LET dir0 == PixelDirection(o.direction, o.up, u.uFieldOfView, uv)
        v == CameraVelocity(o)
        rayDir == IF u.uEnableLorentzTransform
                  THEN LorentzTransformVelocity(dir0, v) ELSE dir0
        c == Cross(o.position, rayDir)
    IN [pc        |-> IF 0 < preset.integrationSteps THEN "loop" ELSE "end",
        NSTEPS    |-> preset.integrationSteps,
        STEP      |-> preset.stepSize,
        showDisk  |-> u.uShowAccretionDisk,
        useDiskTexture |-> u.uUseDiskTexture,
        intensity |-> RayIntensity(u.uEnableRelBeaming, RayDopplerFactor(rayDir, v)),
        start     |-> o.position,
        i         |-> 0,
        point     |-> o.position,
        oldpoint  |-> o.position,
        velocity  |-> rayDir,
        h2        |-> Dot(c, c),
        distance  |-> Length(o.position),
        color     |-> InitialColor,
        captured  |-> FALSE,
        undefined |-> FALSE,
        divided   |-> FALSE,
        below     |-> FALSE,
        hits      |-> 0,
        crossing  |-> <<>>]

\* -1.5 * h2 * point / pow(dot(point, point), 2.5), for a point off the origin:
\* the zero vector when h2 is zero, else 1.5 * h2 / |point|^4 towards the origin
Accel(h2, point) ==
    LET inv == Inverse(Length(point))
        inv2 == Mul(inv, inv)
        g == Mul((3 * h2) \div 2, Mul(inv2, inv2))
    IN IF h2 = 0 THEN <<0, 0, 0>> ELSE Negate(Scale(g, Normalize(point)))

\* the range test with both ends left out
InDiskOpen(r) == DISK_IN < r /\ r < DISK_IN + DISK_WIDTH

\* DISK_IN <= r && r <= DISK_IN + DISK_WIDTH
InDisk(r) == DISK_IN <= r /\ r <= DISK_IN + DISK_WIDTH

\* length(intersection) with lambda = -oldpoint.y / velocity.y
CrossingRadius(oldpoint, velocity) ==
    LET lambda == Quot((-oldpoint[2]) * ONE, velocity[2])
    IN Length(Add(oldpoint, Scale(lambda, velocity)))

\* the sign test that also takes a point on the plane for a crossing
OppositeSidesOrZero(oldpoint, point) ==
    \/ oldpoint[2] <= 0 /\ point[2] >= 0
    \/ oldpoint[2] >= 0 /\ point[2] <= 0

\* oldpoint.y * point.y < 0.0
OppositeSides(oldpoint, point) ==
    \/ oldpoint[2] < 0 /\ point[2] > 0
    \/ oldpoint[2] > 0 /\ point[2] < 0

\* distance < 1.0 && length(oldpoint) > 1.0
HorizonMask(distance, oldpoint) == distance < ONE /\ Length(oldpoint) > ONE

\* one iteration of the loop, lines 134-189. A division by zero leaves the
\* value undefined: pow(0.0, 2.5) under the acceleration ends the known part of
\* the trace (`undefined`), a zero velocity.y under lambda leaves the crossing
\* radius to `inRange`, any outcome of the range test.
LoopBody(r, inRange) ==
    LET oldpoint == r.point
        point == Add(r.point, Scale(r.STEP, r.velocity))
        lost == point = <<0, 0, 0>>
        velocity == IF lost THEN r.velocity
                    ELSE Add(r.velocity, Scale(r.STEP, Accel(r.h2, point)))
        distance == Length(point)
        horizonMask == HorizonMask(distance, oldpoint)
        tested == r.showDisk /\ OppositeSides(oldpoint, point)
        byZero == tested /\ velocity[2] = 0
        radius == IF byZero THEN <<>> ELSE <<CrossingRadius(oldpoint, velocity)>>
        hit == IF byZero THEN inRange ELSE InDisk(radius[1])
        moved == [r EXCEPT !.i = r.i + 1,
                           !.oldpoint = oldpoint,
                           !.point = point,
                           !.velocity = velocity,
                           !.distance = distance,
                           !.below = @ \/ distance < ONE,
                           !.crossing = <<>>]
    IN IF lost
       THEN [moved EXCEPT !.undefined = TRUE, !.pc = "end"]
       ELSE IF distance < 0
       THEN [moved EXCEPT !.pc = "end"]
       ELSE IF horizonMask
       THEN [moved EXCEPT !.color.alpha = @ + 1, !.captured = TRUE, !.pc = "end"]
       ELSE [moved EXCEPT
               !.pc = IF r.i + 1 < r.NSTEPS THEN "loop" ELSE "end",
               !.divided = @ \/ byZero,
               !.crossing = IF tested THEN <<[radius |-> radius, hit |-> hit]>> ELSE <<>>,
               !.hits = IF tested /\ hit THEN @ + 1 ELSE @,
               !.color.disk = IF tested /\ hit THEN @ + 1 ELSE @]

\* the escape shading applied to every ray, captured or not
ShadeAlways(r, star, outside) ==
    [r EXCEPT !.pc = "done",
              !.color.star = star,
              !.color.background = TRUE]

\* lines 192-211: the star and the background of a ray that ends outside
Shade(r, star, outside) ==
    [r EXCEPT !.pc = "done",
              !.color.star = outside /\ star,
              !.color.background = outside]

\* the GPU starts main() for the pixel at uv of the frame just drawn
BeginRay(uv) ==
    /\ hist.drew
    /\ res.mesh # <<>>
    /\ ray.pc \in {"idle", "done"}
    /\ ray' = RayStart(obs, uni, res.mesh[1], uv)
    /\ UNCHANGED <<config, obs, ctl, uni, loop, now, tex, res, hist, comp>>

\* for (int i = 0; i < NSTEPS; i++) { ... }
RayStep ==
    /\ ray.pc = "loop"
    /\ \E inRange \in BOOLEAN : ray' = LoopBody(ray, inRange)
    /\ UNCHANGED <<config, obs, ctl, uni, loop, now, tex, res, hist, comp>>

\* if (distance > 1.0) { ... } gl_FragColor = color * rayIntensity; star tells
\* whether the star map holds a star in the final direction
RayEnd ==
    /\ ray.pc = "end"
    /\ \E star \in BOOLEAN, lucky \in BOOLEAN :
          ray' = Shade(ray, star, IF ray.undefined THEN lucky ELSE ray.distance > ONE)
    /\ UNCHANGED <<config, obs, ctl, uni, loop, now, tex, res, hist, comp>>

----------------------------------------------------------------------------
(* Specifications *)

Gaps == {16, 250}               \* ms between two display refreshes
TouchDistances == {0, 100, 200} \* pixels between two fingers

\* the observer: orbit ramp, distance, zoom
OrbitConfigs ==
    {NoUpdate,
     [cameraDistance |-> <<150>>],
     [orbitSpeed |-> <<20000>>],
     [enableOrbit |-> <<FALSE>>],
     [enableControls |-> <<TRUE>>, cameraDistance |-> <<220>>, maxDistance |-> <<230>>]}

OrbitUpdates ==
    {[cameraDistance |-> <<150>>],
     [cameraDistance |-> <<1000>>],
     [orbitSpeed |-> <<20000>>],
     [orbitSpeed |-> <<-700000>>],
     [enableOrbit |-> <<FALSE>>],
     [enableOrbit |-> <<TRUE>>],
     [enableControls |-> <<TRUE>>],
     [enableControls |-> <<FALSE>>]}

Init == \E uc \in OrbitConfigs : Constructor(uc)

Next ==
    \/ Start
    \/ Stop
    \/ \E gap \in Gaps : Tick(gap)
    \/ \E u \in OrbitUpdates : SetConfig(u)
    \/ \E deltaY \in {-1, 1} : Wheel(deltaY)
    \/ \E d \in TouchDistances : TouchStart(d)
    \/ \E d \in TouchDistances : TouchMove(d)

Spec == Init /\ [][Next]_vars

----------------------------------------------------------------------------
(* Claims about the observer *)

\* C1: in every reachable state of a renderer, right after construction with
\* any cameraDistance and after any setConfig calls, zoom events and frames,
\* the observer's radius r is at least 2.0.
C1_RadiusAtLeastTwo == obs.r >= MIN_R

\* C2: in every reachable state the orbit angular velocity w satisfies
\* 0 <= w <= maxAngularVelocity(r) for the current radius r.
C2_AngularVelocityClamped ==
    /\ 0 <= obs.angularVelocity
    /\ obs.angularVelocity <= MaxAngularVelocity(obs.r)

\* C3: an observer update in orbit mode that leaves the radius unchanged does
\* not lower the angular velocity when the moving flag is true and does not
\* raise it when the moving flag is false.
C3_RampMonotone ==
    [][(hist'.op \in {"start", "tick"} /\ hist'.drew
        /\ ~obs'.manualControl /\ obs'.r = obs.r)
       => /\ obs'.moving => obs'.angularVelocity >= obs.angularVelocity
          /\ ~obs'.moving => obs'.angularVelocity <= obs.angularVelocity]_vars

----------------------------------------------------------------------------
(* The frame loop and teardown *)

LoopConfigs ==
    {NoUpdate,
     [fieldOfView |-> <<60>>],
     [fieldOfView |-> <<120>>, enableOrbit |-> <<FALSE>>]}

LoopUpdates ==
    {[fieldOfView |-> <<45>>],
     [fieldOfView |-> <<90>>]}

InitLoop == \E uc \in LoopConfigs : Constructor(uc)

NextLoop ==
    \/ Start
    \/ Stop
    \/ \E gap \in Gaps : Tick(gap)
    \/ RenderFrame
    \/ \E u \in LoopUpdates : SetConfig(u)
    \/ Dispose

SpecLoop == InitLoop /\ [][NextLoop]_vars

\* C4: after any sequence of start() and stop() calls at most one frame
\* callback is pending (the one this.animationId names); start() while the
\* loop runs draws no frame and schedules nothing, stop() while stopped
\* changes nothing.
C4_StartStopIdempotent ==
    /\ [](/\ Cardinality(loop.pending) <= 1
          /\ loop.pending = {loop.animationId} \ {NULL})
    /\ [][/\ (hist'.op = "start" /\ loop.animationId # NULL)
             => (~hist'.drew /\ loop' = loop /\ obs' = obs /\ uni' = uni)
          /\ (hist'.op = "stop" /\ loop.animationId = NULL)
             => (loop' = loop /\ obs' = obs /\ uni' = uni)]_vars

\* start() was called while the loop was running, after a frame of the loop
C4_Witness ==
    /\ hist.op = "start" /\ ~hist.drew
    /\ hist.tickId # 0
    /\ Cardinality(loop.pending) = 1

\* C5: once stop() has returned, no frame is drawn by the loop and the
\* observer is not advanced until start() is called again; a callback that
\* was pending when stop() was called never runs a frame.
C5_NoFrameAfterStop ==
    /\ [][(loop.animationId = NULL /\ hist'.op # "start")
          => /\ hist'.op # "tick"
             /\ obs'.time = obs.time
             /\ uni'.uTime = uni.uTime]_vars
    /\ [](hist.op = "tick" => hist.tickId \notin hist.stale)

\* a frame of the restarted loop, after a stop() that cancelled a callback
C5_Witness ==
    /\ hist.op = "tick"
    /\ hist.stale # {}
    /\ hist.disposeCalls = 0

\* C6: over any sequence of dispose() calls the WebGL renderer, the composer,
\* each texture and the input listeners are released at most once.
C6_ReleasedOnce ==
    /\ res.renderer <= 1
    /\ res.composer <= 1
    /\ res.listeners <= 1
    /\ \A t \in TextureIds : res.textures[t] <= 1

\* C10: every frame that is drawn uses the configured fieldOfView.
C10_FrameUsesConfiguredFov ==
    hist.drew => hist.frame.fov = config.fieldOfView

----------------------------------------------------------------------------
(* Texture loading *)

TextureConfigs ==
    {[backgroundTextureUrl |-> <<b>>, starTextureUrl |-> <<s>>,
      diskTextureUrl |-> <<d>>, onTexturesLoaded |-> <<cb>>] :
        b \in {"", "/assets/milkyway.jpg"}, s \in {"", "/assets/star_noise.png"},
        d \in {"", "/assets/accretion_disk.png"}, cb \in {TRUE}}
    \cup {[backgroundTextureUrl |-> <<"/assets/milkyway.jpg">>],
          [useDiskTexture |-> <<FALSE>>],
          [useDiskTexture |-> <<FALSE>>,
           diskTextureUrl |-> <<"/assets/accretion_disk.png">>]}

InitTextures == \E uc \in TextureConfigs : Constructor(uc)

NextTextures ==
    \/ \E slot \in Slots : TextureLoaded(slot)
    \/ \E slot \in Slots : TextureFailed(slot)
    \/ Start
    \/ Stop
    \/ \E gap \in Gaps : Tick(gap)

SpecTextures == InitTextures /\ [][NextTextures]_vars

\* C7: the onTexturesLoaded callback is invoked exactly once per renderer:
\* during construction when no texture URL is configured, otherwise when the
\* last requested load has completed and never before.
C7_CallbackExactlyOnce ==
    config.onTexturesLoaded =>
        /\ tex.calls <= 1
        /\ (tex.calls = 1) <=> (\A s \in Slots : tex.state[s] # "pending")

----------------------------------------------------------------------------
(* Runtime configuration *)

ConfigConfigs ==
    {NoUpdate,
     [enableControls |-> <<TRUE>>, diskTextureUrl |-> <<"/assets/accretion_disk.png">>]}

ConfigUpdates ==
    {[cameraDistance |-> <<150>>],
     [cameraDistance |-> <<600>>],
     [orbitSpeed |-> <<10000>>],
     [enableOrbit |-> <<FALSE>>],
     [enableControls |-> <<TRUE>>],
     [enableControls |-> <<FALSE>>],
     [mouseSensitivity |-> <<5>>],
     [touchSensitivity |-> <<-1>>],
     [enableZoom |-> <<FALSE>>],
     [minDistance |-> <<300>>],
     [minDistance |-> <<150>>],
     [maxDistance |-> <<3000>>],
     [minDistance |-> <<250>>, maxDistance |-> <<2000>>],
     [minDistance |-> <<>>, maxDistance |-> <<4000>>],
     [fieldOfView |-> <<45>>],
     [showAccretionDisk |-> <<FALSE>>],
     [useDiskTexture |-> <<FALSE>>],
     [enableLorentzTransform |-> <<FALSE>>],
     [enableDopplerShift |-> <<FALSE>>],
     [enableBeaming |-> <<FALSE>>],
     [bloomStrength |-> <<100>>],
     [bloomRadius |-> <<60>>],
     [bloomThreshold |-> <<20>>],
     [resolutionScale |-> <<50>>],
     [quality |-> <<"high">>],
     [cameraDistance |-> <<>>, fieldOfView |-> <<120>>, enableOrbit |-> <<>>],
     [cameraDistance |-> <<400>>, orbitSpeed |-> <<>>, enableBeaming |-> <<FALSE>>],
     NoUpdate}

InitConfig == \E uc \in ConfigConfigs : Constructor(uc)

NextConfig ==
    \/ \E u \in ConfigUpdates : SetConfig(u)
    \/ Start
    \/ \E gap \in Gaps : Tick(gap)

SpecConfig == InitConfig /\ [][NextConfig]_vars

\* the component that consumes field f shows the value v
Reflects(f, v) ==
    CASE f = "cameraDistance"         -> obs.r = Max(v, MIN_R)
      [] f = "orbitSpeed"             -> (0 <= v /\ v <= obs.maxAngularVelocity)
                                            => obs.angularVelocity = v
      [] f = "enableOrbit"            -> obs.moving = (v /\ ~obs.manualControl)
      [] f = "enableControls"         -> ctl.enabled = v /\ obs.manualControl = v
      [] f = "mouseSensitivity"       -> ctl.mouseSensitivity = v
      [] f = "touchSensitivity"       -> ctl.touchSensitivity = v
      [] f = "enableZoom"             -> ctl.enableZoom = v
      [] f = "minDistance"            -> ctl.minDistance = Max(v, MIN_RANGE)
      [] f = "maxDistance"            -> ctl.maxDistance = v
      [] f = "fieldOfView"            -> uni.uFieldOfView = v
      [] f = "showAccretionDisk"      -> uni.uShowAccretionDisk = v
      [] f = "enableLorentzTransform" -> uni.uEnableLorentzTransform = v
      [] f = "enableDopplerShift"     -> uni.uEnableDopplerShift = v
      [] f = "enableBeaming"          -> uni.uEnableRelBeaming = v
      [] f = "useDiskTexture"         -> uni.uUseDiskTexture = v
      [] f = "bloomStrength"          -> res.bloomPass.bloomStrength = v
      [] f = "bloomRadius"            -> res.bloomPass.bloomRadius = v
      [] f = "bloomThreshold"         -> res.bloomPass.bloomThreshold = v
      [] OTHER                        -> TRUE

\* C8: when setConfig returns, the stored configuration and the consuming
\* component show the new value of every field present in the update,
\* useDiskTexture, the bloom fields and resolutionScale included.
C8_PresentFieldsApplied ==
    hist.op = "setConfig" =>
        \A f \in DOMAIN hist.update \ {"quality"} :
            Has(hist.update, f) =>
                /\ config[f] = hist.update[f][1]
                /\ Reflects(f, hist.update[f][1])

\* the state derived from field f is the same before and after the step
Untouched(f) ==
    CASE f = "cameraDistance"         -> /\ obs'.r = obs.r
                                         /\ obs'.maxAngularVelocity = obs.maxAngularVelocity
      [] f = "orbitSpeed"             -> obs'.angularVelocity = obs.angularVelocity
      [] f = "enableOrbit"            -> obs'.moving = obs.moving
      [] f = "enableControls"         -> /\ ctl'.enabled = ctl.enabled
                                         /\ ctl'.isDragging = ctl.isDragging
                                         /\ obs'.manualControl = obs.manualControl
      [] f = "mouseSensitivity"       -> ctl'.mouseSensitivity = ctl.mouseSensitivity
      [] f = "touchSensitivity"       -> ctl'.touchSensitivity = ctl.touchSensitivity
      [] f = "enableZoom"             -> ctl'.enableZoom = ctl.enableZoom
      [] f = "minDistance"            -> ctl'.minDistance = ctl.minDistance
      [] f = "maxDistance"            -> ctl'.maxDistance = ctl.maxDistance
      [] f = "fieldOfView"            -> uni'.uFieldOfView = uni.uFieldOfView
      [] f = "showAccretionDisk"      -> uni'.uShowAccretionDisk = uni.uShowAccretionDisk
      [] f = "enableLorentzTransform" -> uni'.uEnableLorentzTransform = uni.uEnableLorentzTransform
      [] f = "enableDopplerShift"     -> uni'.uEnableDopplerShift = uni.uEnableDopplerShift
      [] f = "enableBeaming"          -> uni'.uEnableRelBeaming = uni.uEnableRelBeaming
      [] f = "useDiskTexture"         -> uni'.uUseDiskTexture = uni.uUseDiskTexture
      [] f \in {"bloomStrength", "bloomRadius", "bloomThreshold"}
                                      -> res'.bloomPass = res.bloomPass
      [] f \in {"backgroundTextureUrl", "starTextureUrl", "diskTextureUrl"}
                                      -> /\ tex' = tex
                                         /\ uni'.uBackgroundTexture = uni.uBackgroundTexture
                                         /\ uni'.uStarDataTexture = uni.uStarDataTexture
                                         /\ uni'.uDiskTexture = uni.uDiskTexture
      [] OTHER                        -> TRUE

\* C9: a setConfig call leaves every configuration field that is absent from
\* (or undefined in) the update unchanged, together with the observer,
\* controls and uniform state derived from it; an update naming only
\* minDistance leaves maxDistance unchanged and vice versa.
C9_AbsentFieldsUntouched ==
    [][hist'.op = "setConfig" =>
        \A f \in ConfigFields :
            ~Has(hist'.update, f) => (config'[f] = config[f] /\ Untouched(f))]_vars

\* setConfig({minDistance}) was called after maxDistance had been changed
C9_Witness ==
    /\ hist.op = "setConfig"
    /\ DOMAIN hist.update = {"minDistance"}
    /\ config.minDistance = 300
    /\ config.maxDistance = 3000 /\ ctl.maxDistance = 3000

----------------------------------------------------------------------------
(* Specification of the two camera modes: orbit, manual, and the switches  *)

Thetas == {23562, 61000}                   \* orbit angles reached by earlier frames
Pointers == {<<0, 0>>, <<300, 900>>}       \* clientX, clientY of a pointer event
Looks == {<<-20000, 40000>>, <<5000, -7000>>}   \* pitch, yaw given to setLookAngles

ManualConfigs ==
    {[cameraDistance |-> <<300>>],
     [cameraDistance |-> <<5000>>, orbitSpeed |-> <<0>>, enableOrbit |-> <<FALSE>>],
     [enableControls |-> <<TRUE>>]}

ManualUpdates ==
    {[enableControls |-> <<TRUE>>],
     [enableControls |-> <<FALSE>>, orbitSpeed |-> <<0>>, enableOrbit |-> <<FALSE>>],
     [cameraDistance |-> <<250>>]}

\* the observer after the frames that took it along its orbit to angle th
Orbited(o, th) == UpdatePosition([o EXCEPT !.theta = th])

InitManual ==
    \E uc \in ManualConfigs, th \in Thetas :
        LET o == ConstructorObserver(MergeDefaults(uc))
        IN Constructed(uc, IF o.manualControl THEN o ELSE Orbited(o, th))

NextManual ==
    \/ Start
    \/ Tick(MAX_DELTA)
    \/ \E u \in ManualUpdates : SetConfig(u)
    \/ MouseDown(0, 0)
    \/ \E p \in Pointers : MouseMove(p[1], p[2])
    \/ MouseUp
    \/ TouchDragStart(0, 0)
    \/ TouchDrag(300, -900)
    \/ TouchEnd
    \/ \E a \in Looks : SetLookAngles(a[1], a[2])
    \/ Wheel(1)

SpecManual == InitManual /\ [][NextManual]_vars

\* bound on the rounding error of the fixed-point trigonometry: 2e-3 rad for an
\* angle, 2e-3 of the radius for a coordinate
EPSILON == 20

\* the largest difference between the coordinates of p and q
Dist(p, q) == Max(Abs(p[1] - q[1]), Max(Abs(p[2] - q[2]), Abs(p[3] - q[3])))

\* p and q are the same point up to the rounding of coordinates of size len
Close(p, q, len) == Dist(p, q) <= (EPSILON * len) \div ONE + 1

\* v scaled by len / 1.0
Scaled(v, len) == <<MulFix(len, v[1]), MulFix(len, v[2]), MulFix(len, v[3])>>

\* C11: in every reachable state in which manual mode is on, the state right
\* after the switch into manual mode included, the observer's velocity is the
\* zero vector.
C11_ManualVelocityZero == obs.manualControl => obs.velocity = <<0, 0, 0>>

\* C12: a switch from orbit mode into manual mode and back, with no pitch/yaw
\* input in between, does not move the camera: every frame drawn while the
\* position of the switch has to be kept (in manual mode, and back in orbit
\* mode with angular velocity 0) leaves the position where it was before the
\* switch, up to rounding.
C12_SwitchKeepsPosition ==
    (hist.held # <<>> /\ hist.drew)
        => Close(obs.position, hist.held[1], Radius(obs))

\* a frame drawn back in orbit mode, away from the start of the orbit, after a
\* stay in manual mode
C12_Witness ==
    /\ hist.held # <<>>
    /\ hist.drew
    /\ ~obs.manualControl
    /\ obs.theta = 61000
    /\ hist.setConfigCalls = 2

\* C15: in every reachable state the manual pitch lies within
\* [-pi/2 + 0.1, pi/2 - 0.1] (up to the rounding of the angle that a switch
\* into manual mode reads back from the position).
C15_PitchClamped == Abs(obs.manualPitch) <= HALF_PI - PITCH_MARGIN + EPSILON

\* manual mode switched on again from a position at the end of the pitch range
C15_Witness ==
    /\ hist.op = "setConfig"
    /\ obs.manualControl
    /\ Abs(obs.manualPitch) >= HALF_PI - PITCH_MARGIN - EPSILON

\* C16: in both modes the position has magnitude r and the view direction is
\* the unit vector from the position towards the origin, after every observer
\* update, distance change and manual angle change (up to rounding).
C16_FacesOrigin ==
    /\ Abs(Length(obs.position) - Radius(obs)) <= (EPSILON * Radius(obs)) \div ONE + 1
    /\ Abs(Length(obs.direction) - ONE) <= EPSILON
    /\ Close(Scaled(obs.direction, Radius(obs)), Negate(obs.position), Radius(obs))

\* a zoom step in manual mode with the camera off the orbit plane
C16_Witness ==
    /\ hist.op = "wheel"
    /\ obs.manualControl
    /\ obs.manualPitch # 0
    /\ obs.r # config.cameraDistance

----------------------------------------------------------------------------
(* The setters behind setConfig                                            *)

\* C13: after setConfig({cameraDistance: d}) the radius is exactly 2.0 when
\* d < 2.0 and d when d >= 2.0; the call raises no error.
C13_SetDistanceClamps ==
    (hist.op = "setConfig" /\ Has(hist.update, "cameraDistance"))
        => LET d == hist.update["cameraDistance"][1]
           IN /\ d < MIN_R => obs.r = MIN_R
              /\ d >= MIN_R => obs.r = d

\* a distance below 2.0 was set on a renderer built at the default distance
C13_Witness ==
    /\ hist.op = "setConfig"
    /\ Has(hist.update, "cameraDistance")
    /\ hist.update["cameraDistance"][1] < MIN_R
    /\ config.cameraDistance < MIN_R
    /\ obs.r = MIN_R

\* C14: setting the orbit angular velocity to v stores v clamped to
\* [0, maxAngularVelocity]: 0 for a negative v, the maximum for a v above it,
\* v itself otherwise.
C14_OrbitSpeedClamped ==
    (hist.op = "setConfig" /\ Has(hist.update, "orbitSpeed"))
        => obs.angularVelocity
             = Max(0, Min(hist.update["orbitSpeed"][1], obs.maxAngularVelocity))

----------------------------------------------------------------------------
(* The frame step                                                          *)

\* C17: on every frame the elapsed time handed to the observer update and
\* added to the time uniform is at most 0.1 s, however long the gap between
\* two ticks.
C17_DeltaAtMostTenth ==
    [][(hist'.drew /\ hist'.op \in {"start", "tick"})
           => /\ obs'.time - obs.time <= MAX_DELTA
              /\ (uni'.uTime - uni.uTime) % TIME_WRAP <= MAX_DELTA]_vars

\* the first tick came 0.25 s after start() and advanced the times by 0.1 s
C17_Witness ==
    /\ hist.op = "tick"
    /\ now = 250
    /\ obs.time = MAX_DELTA
    /\ uni.uTime = MAX_DELTA

----------------------------------------------------------------------------
(* Textures and the disk mode                                              *)

\* the slot whose load completes in the step at hand
Completes(slot) == tex.state[slot] = "pending" /\ tex'.state[slot] = "loaded"

\* C18: a slot whose load is pending or has failed holds the procedural
\* texture; a load that completes replaces the texture of its own slot only
\* (and sets the disk-texture flag when the slot is the disk) and leaves the
\* loop, the observer and the time uniform as they were.
C18_LoadsSwapOneSlot ==
    /\ [](\A slot \in Slots :
            tex.state[slot] \in {"pending", "failed"}
                => uni[TextureUniform(slot)] = "procedural")
    /\ [][\A slot \in Slots :
            Completes(slot)
                => /\ uni'[TextureUniform(slot)] = "loaded"
                   /\ \A other \in Slots \ {slot} :
                          uni'[TextureUniform(other)] = uni[TextureUniform(other)]
                   /\ (slot # "disk" => uni'.uUseDiskTexture = uni.uUseDiskTexture)
                   /\ loop' = loop
                   /\ obs' = obs
                   /\ uni'.uTime = uni.uTime]_vars

\* a load completed while the loop was running, one other load still pending
\* and one failed
C18_Witness ==
    /\ hist.op = "textureLoaded"
    /\ loop.animationId # NULL
    /\ uni.uTime > 0
    /\ \E slot \in Slots : tex.state[slot] = "pending"
    /\ \E slot \in Slots : tex.state[slot] = "failed"

\* C19: the disk is drawn in the mode the useDiskTexture option names, in every
\* state: procedural when it is false, textured when it is true, whether a
\* configured disk texture is loading, has loaded or has failed.
C19_DiskModeFollowsOption == uni.uUseDiskTexture = config.useDiskTexture

----------------------------------------------------------------------------
(* Specification of the quality presets                                    *)

QualityNames == {"low", "medium", "high", "ultra", "extreme", "constructor", ""}

QualityConfigs ==
    {[quality |-> <<q>>] : q \in QualityNames}
    \cup {NoUpdate, [quality |-> <<>>, cameraDistance |-> <<600>>]}

QualityUpdates ==
    {[fieldOfView |-> <<45>>], [cameraDistance |-> <<400>>], [quality |-> <<"high">>]}

InitQuality == \E uc \in QualityConfigs : Constructor(uc)

\* the operations need the renderer that a constructor call returned
NextQuality ==
    \/ res.error = "" /\ Start
    \/ res.error = "" /\ Stop
    \/ res.error = "" /\ \E gap \in Gaps : Tick(gap)
    \/ res.error = "" /\ RenderFrame
    \/ res.error = "" /\ \E u \in QualityUpdates : SetConfig(u)

SpecQuality == InitQuality /\ [][NextQuality]_vars

\* C20: a constructor call with a quality name that has no preset ends in an
\* error raised by the constructor: no shader is built and no frame is ever
\* drawn; a renderer that exists runs with the preset of its own quality name.
C20_UnknownQualityFails ==
    /\ config.quality \notin DOMAIN QUALITY_PRESETS
           => /\ res.error = "TypeError"
              /\ res.mesh = <<>>
              /\ hist.op = "constructor"
              /\ ~hist.drew
              /\ loop.animationId = NULL
    /\ res.mesh # <<>> => res.mesh[1] = QUALITY_PRESETS[config.quality]

\* the constructor was called with a name that has no preset
C20_Witness ==
    /\ hist.op = "constructor"
    /\ Has(hist.update, "quality")
    /\ hist.update["quality"][1] = "extreme"
    /\ res.error = "TypeError"

\* C22: the step count and step size compiled into the shading program are
\* those of the preset named at construction (medium when none is named), and
\* no later operation, setConfig({quality}) included, changes them.
C22_PresetFixedAtConstruction ==
    /\ []((hist.op = "constructor" /\ res.error = "")
             => res.mesh = <<QUALITY_PRESETS[OrElse(hist.update, "quality", "medium")]>>)
    /\ [][res'.mesh = res.mesh]_vars

\* setConfig({quality: "high"}) on a renderer built with the low preset
C22_Witness ==
    /\ hist.op = "setConfig"
    /\ Has(hist.update, "quality")
    /\ hist.update["quality"][1] = "high"
    /\ res.mesh = <<QUALITY_PRESETS["low"]>>

----------------------------------------------------------------------------
(* Sensitivities and the orbit speed                                       *)

\* C21: a mouseSensitivity or touchSensitivity out of range (a negative one)
\* given at construction or through setConfig is clamped before it is used for
\* a drag: the controls never hold a negative sensitivity.
C21_SensitivityClamped ==
    /\ ctl.mouseSensitivity >= 0
    /\ ctl.touchSensitivity >= 0

\* C26: with the moving flag true and the radius unchanged the angular velocity
\* ends at maxAngularVelocity(r), with the flag false at 0, and no single frame
\* changes it by more than dt / r. The formula is the last part: the bound on
\* the change of one frame.
C26_RampBoundedPerFrame ==
    [][(hist'.drew /\ hist'.op \in {"start", "tick"})
           => Abs(obs'.angularVelocity - obs.angularVelocity)
                  <= RampStep(obs, obs'.time - obs.time)]_vars

\* C27: while orbit motion is enabled the angular velocity is the configured
\* orbitSpeed, limited only by maxAngularVelocity; frames do not move it away.
C27_OrbitSpeedKept ==
    (hist.drew /\ config.enableOrbit /\ ~obs.manualControl)
        => obs.angularVelocity = Min(config.orbitSpeed, obs.maxAngularVelocity)

\* C28: a renderer constructed with enableOrbit = false and never reconfigured
\* performs no orbital motion: after every frame the orbit angle and the
\* position are those of the first frame.
C28_NoMotionWithoutOrbit ==
    (/\ hist.drew
     /\ ~config.enableOrbit
     /\ ~obs.manualControl
     /\ hist.setConfigCalls = 0
     /\ hist.inputs = 0)
        => /\ obs.theta = 0
           /\ obs.position = OrbitPosition([obs EXCEPT !.theta = 0])

----------------------------------------------------------------------------
(* Rays: a renderer is constructed, draws a frame (renderFrame() from the   *)
(* constructor's camera position on the z axis, or start() from the orbit)  *)
(* and the shading program traces the rays of some pixels of that frame.    *)

\* uv of the pixels traced: the centre of the frame and pixels around it
Pixels == {<<0, 0>>, <<2000, 0>>, <<0, -1000>>, <<6000, 3420>>}

\* every preset at the largest distance of the default range, the ultra
\* preset at 4.0, and at 10.0 the disk shown without the camera's aberration
\* and beaming, and hidden with them
RayConfigs ==
    {[quality |-> <<q>>, cameraDistance |-> <<5000>>] :
        q \in {"low", "medium", "high", "ultra"}}
    \cup {[quality |-> <<"ultra">>, cameraDistance |-> <<400>>]}
    \cup {[cameraDistance |-> <<1000>>, showAccretionDisk |-> <<show>>,
           enableLorentzTransform |-> <<~show>>, enableBeaming |-> <<~show>>] :
            show \in BOOLEAN}

InitRay == \E uc \in RayConfigs : Constructor(uc)

NextRay ==
    \/ hist.op = "constructor" /\ Start
    \/ hist.op = "constructor" /\ RenderFrame
    \/ \E uv \in Pixels : BeginRay(uv)
    \/ RayStep
    \/ RayEnd

SpecRay == InitRay /\ [][NextRay]_vars

\* the last step of the ray was an iteration of the loop
Stepped == ray.pc = "loop" /\ ray'.i = ray.i + 1

\* C23: for every preset and every camera distance the configuration allows, a
\* ray aimed exactly at the centre (h2 = 0) triggers the horizon check in some
\* step before the loop has run its N steps.
C23_CentralRayCaptured ==
    (ray.pc \in {"end", "done"} /\ ray.h2 = 0) => ray.captured

\* C24 as stated: a ray that ends in horizon capture has the colour (0, 0, 0),
\* whatever disk crossings were recorded in its earlier steps.
C24_CapturedIsBlack ==
    (ray.pc = "done" /\ ray.captured) => ray.color.disk = 0

\* C24, amended: the horizon check adds (0, 0, 0, 1) to the colour accumulated
\* so far and ends the ray without star or background: the captured ray's
\* colour is the sum of the disk contributions recorded before the capture
\* (black when there was none), its alpha the initial 1 plus the horizon's 1
\* plus the disk's.
C24_CapturedKeepsDisk ==
    (ray.pc = "done" /\ ray.captured)
        => /\ ray.color.disk = ray.hits
           /\ ray.color.alpha = 2
           /\ ~ray.color.star
           /\ ~ray.color.background

\* a captured ray that crossed the disk on its way in
C24_Witness == ray.pc = "done" /\ ray.captured /\ ray.hits > 0

\* C25: in a step that leaves the y component of the velocity (the one the
\* plane interpolation divides by) exactly zero, the disk-crossing test is
\* skipped: nothing is divided by it and the step adds no disk contribution.
C25_ZeroVelocitySkipsTest ==
    [][(Stepped /\ ray'.velocity[2] = 0)
           => /\ ray'.crossing = <<>>
              /\ ~ray'.divided
              /\ ray'.color.disk = ray.color.disk]_vars

\* a step of a ray that stays in the disk plane, the disk shown
C25_Witness ==
    /\ ray.pc \in {"loop", "end"}
    /\ ray.i > 0
    /\ ray.showDisk
    /\ ray.velocity[2] = 0
    /\ ray.point[2] = 0

\* C29: a step adds a disk contribution if and only if showAccretionDisk is
\* true, the step crosses the plane and the interpolated crossing radius r
\* satisfies 2.0 <= r <= 6.0 (both ends included); with showAccretionDisk
\* false no step adds one.
C29_DiskRangeInclusive ==
    [][(Stepped /\ ray'.velocity[2] # 0)
           => LET r == CrossingRadius(ray'.oldpoint, ray'.velocity)
                  crossed == OppositeSides(ray'.oldpoint, ray'.point)
              IN ray'.color.disk - ray.color.disk
                    = IF ray.showDisk /\ crossed /\ 20000 <= r /\ r <= 60000
                      THEN 1 ELSE 0]_vars

\* a crossing at the radius 6.0 that added a contribution
C29_Witness ==
    /\ ray.pc = "loop"
    /\ ray.crossing # <<>>
    /\ ray.crossing[1].radius = <<60000>>
    /\ ray.color.disk = 1

\* C30: every ray ends captured (the loop stopped at the horizon check, no star
\* and no background) or escaped (the loop ran all N steps, the distance never
\* below 1.0, the background added); none ends with neither.
C30_CapturedOrEscaped ==
    ray.pc = "done"
        => \/ ray.captured /\ ~ray.color.star /\ ~ray.color.background
           \/ /\ ~ray.captured
              /\ ray.i = ray.NSTEPS
              /\ ~ray.below
              /\ ray.color.background

----------------------------------------------------------------------------
(* Zoom: wheel and pinch events under configured distance ranges *)

ZoomConfigs ==
    {[enableControls |-> <<TRUE>>],
     [enableControls |-> <<TRUE>>, cameraDistance |-> <<150>>, minDistance |-> <<100>>],
     [enableControls |-> <<TRUE>>, cameraDistance |-> <<6000>>,
      minDistance |-> <<300>>, maxDistance |-> <<1000>>],
     [enableControls |-> <<TRUE>>, minDistance |-> <<300>>, maxDistance |-> <<250>>]}

ZoomUpdates ==
    {[maxDistance |-> <<150>>],
     [minDistance |-> <<400>>],
     [enableZoom |-> <<FALSE>>],
     [cameraDistance |-> <<205>>]}

InitZoom == \E uc \in ZoomConfigs : Constructor(uc)

NextZoom ==
    \/ \E u \in ZoomUpdates : SetConfig(u)
    \/ \E deltaY \in {-1, 1} : Wheel(deltaY)
    \/ \E d \in TouchDistances : TouchStart(d)
    \/ \E d \in TouchDistances : TouchMove(d)

SpecZoom == InitZoom /\ [][NextZoom]_vars

\* a wheel or two-finger move that the controls act on
ZoomAccepted ==
    /\ ctl.enabled /\ ctl.enableZoom
    /\ \/ hist'.op = "wheel"
       \/ hist'.op = "touchmove" /\ ctl.lastTouchDistance > 0

\* C31: after every accepted wheel or pinch zoom event the camera distance lies
\* within [max(minDistance, 2.01), maxDistance] of the configured bounds, for
\* every configured pair of bounds and every prior distance.
C31_ZoomWithinRange ==
    [][ZoomAccepted =>
          /\ obs'.r >= Max(config'.minDistance, MIN_RANGE)
          /\ obs'.r <= config'.maxDistance]_vars

----------------------------------------------------------------------------
(* Input events while the controls or the zoom are switched off *)

ControlConfigs ==
    {NoUpdate,
     [enableControls |-> <<TRUE>>],
     [enableControls |-> <<TRUE>>, enableZoom |-> <<FALSE>>]}

ControlUpdates ==
    {[enableControls |-> <<TRUE>>],
     [enableControls |-> <<FALSE>>],
     [enableZoom |-> <<FALSE>>]}

InitControls == \E uc \in ControlConfigs : Constructor(uc)

NextControls ==
    \/ \E u \in ControlUpdates : SetConfig(u)
    \/ MouseDown(0, 0)
    \/ \E p \in Pointers : MouseMove(p[1], p[2])
    \/ MouseUp
    \/ TouchDragStart(0, 0)
    \/ TouchDrag(300, -900)
    \/ TouchEnd
    \/ \E deltaY \in {-1, 1} : Wheel(deltaY)
    \/ \E d \in TouchDistances : TouchStart(d)
    \/ \E d \in TouchDistances : TouchMove(d)

SpecControls == InitControls /\ [][NextControls]_vars

InputEvents ==
    {"mousedown", "mousemove", "mouseup", "wheel", "touchstart", "touchmove", "touchend"}

AnglesKept == obs'.manualPitch = obs.manualPitch /\ obs'.manualYaw = obs.manualYaw

\* while the controls are disabled no input event changes pitch, yaw, distance
\* or position
DisabledInputsIgnored ==
    (hist'.op \in InputEvents /\ ~ctl.enabled)
        => AnglesKept /\ obs'.r = obs.r /\ obs'.position = obs.position

\* with zoom disabled no wheel or touch event changes the distance
ZoomOffKeepsDistance ==
    (hist'.op \in {"wheel", "touchstart", "touchmove"} /\ ctl.enabled /\ ~ctl.enableZoom)
        => obs'.r = obs.r

\* a mouse move changes the angles only after a mousedown that no mouseup and
\* no disabling of the controls has followed
MouseMoveNeedsMouseDown ==
    (hist'.op = "mousemove" /\ ctl.enabled /\ ~AnglesKept) => hist.mouseDown

\* C32: disabled controls ignore every input event, disabled zoom ignores wheel
\* and two-finger events, and a mouse move changes the angles only between a
\* mousedown and the next mouseup or disabling of the controls.
C32_InputsGated ==
    [][DisabledInputsIgnored /\ ZoomOffKeepsDistance /\ MouseMoveNeedsMouseDown]_vars

----------------------------------------------------------------------------
(* The two camera modes *)

ModeConfigs ==
    {[cameraDistance |-> <<300>>],
     [enableOrbit |-> <<FALSE>>, orbitSpeed |-> <<20000>>],
     [enableControls |-> <<TRUE>>, orbitSpeed |-> <<20000>>]}

ModeUpdates ==
    {[enableControls |-> <<TRUE>>],
     [enableControls |-> <<FALSE>>],
     [enableOrbit |-> <<TRUE>>],
     [enableOrbit |-> <<FALSE>>]}

InitModes ==
    \E uc \in ModeConfigs :
        LET o == ConstructorObserver(MergeDefaults(uc))
        IN Constructed(uc, IF o.manualControl THEN o ELSE Orbited(o, 23562))

NextModes ==
    \/ Start
    \/ Tick(MAX_DELTA)
    \/ \E u \in ModeUpdates : SetConfig(u)
    \/ SetLookAngles(-20000, 40000)
    \/ Wheel(1)

SpecModes == InitModes /\ [][NextModes]_vars

\* a frame of the loop drawn in manual mode: orbit angle and angular velocity
\* stay, the moving flag is false, the position is the manual one
ManualFrame ==
    (hist'.drew /\ obs.manualControl)
        => /\ obs'.theta = obs.theta
           /\ obs'.angularVelocity = obs.angularVelocity
           /\ ~obs'.moving
           /\ obs'.position = ManualPosition(obs')

\* setConfig({enableOrbit}) in manual mode leaves the moving flag false
ManualEnableOrbit ==
    (hist'.op = "setConfig" /\ Has(hist'.update, "enableOrbit") /\ obs.manualControl)
        => ~obs'.moving

\* every step that moves the camera in manual mode puts it at the point that
\* pitch, yaw and radius name
ManualMove ==
    (obs.manualControl /\ obs'.manualControl /\ obs'.position # obs.position)
        => obs'.position = ManualPosition(obs')

\* in orbit mode a step that changes pitch or yaw but neither the orbit angle
\* nor the radius leaves the position, and a frame puts the camera at the
\* point of the orbit that the orbit angle and the radius name
OrbitIgnoresAngles ==
    /\ (/\ ~obs.manualControl /\ ~obs'.manualControl
        /\ obs'.theta = obs.theta /\ obs'.r = obs.r
        /\ ~AnglesKept)
           => obs'.position = obs.position
    /\ (hist'.drew /\ ~obs.manualControl) => obs'.position = OrbitPosition(obs')

----------------------------------------------------------------------------
(* The camera uniforms at a render; the zoom events are delivered after the *)
(* loop has drawn its first frame                                          *)

CameraUniforms ==
    {<<"uCameraPosition", "position">>, <<"uCameraVelocity", "velocity">>,
     <<"uCameraDirection", "direction">>, <<"uCameraUp", "up">>}

CameraConfigs ==
    {[cameraDistance |-> <<300>>],
     [enableControls |-> <<TRUE>>]}

CameraUpdates ==
    {[cameraDistance |-> <<250>>],
     [enableControls |-> <<TRUE>>],
     [orbitSpeed |-> <<20000>>]}

InitCamera == \E uc \in CameraConfigs : Constructor(uc)

NextCamera ==
    \/ Start
    \/ Tick(MAX_DELTA)
    \/ RenderFrame
    \/ \E u \in CameraUpdates : SetConfig(u)
    \/ SetLookAngles(-20000, 40000)
    \/ (loop.nextId > 1 /\ Wheel(1))

SpecCamera == InitCamera /\ [][NextCamera]_vars

\* C34: at every render (a frame of the loop or a renderFrame() call) the
\* camera uniforms for position, velocity, direction and up equal the observer's
\* current position, velocity, direction and up, also when setConfig, a zoom
\* event or a manual angle change happened since the last frame of the loop.
C34_CameraUniformsCurrent ==
    hist.drew => \A c \in CameraUniforms : CameraValue(uni, obs, c[1]) = obs[c[2]]

\* renderFrame() after a zoom event moved the camera away from where the only
\* frame of the loop had drawn it (zoom events come after start() here)
C34_Witness ==
    /\ hist.drew
    /\ hist.frame.by = "renderFrame"
    /\ loop.nextId = 2
    /\ obs.manualControl
    /\ obs.r # config.cameraDistance
    /\ obs.up # <<0, ONE, 0>>

----------------------------------------------------------------------------
(* The BlackholeBackground component: each renderer it creates is followed *)
(* by the calls the component makes on it                                  *)

\* new BlackholeRenderer({canvas, ...config, onTexturesLoaded}); renderer.start()
NewRenderer(props) ==
    [config |-> props, startCalls |-> 1, setConfigCalls |-> 0, disposeCalls |-> 0,
     usedAfterDispose |-> FALSE]

\* initRenderer(); canvasRef.current is set whenever an effect runs
InitRenderer(c, props) ==
    IF c.rendererRef # NULL THEN c
    ELSE [c EXCEPT !.renderers = Append(@, NewRenderer(props)),
                   !.rendererRef = Len(c.renderers) + 1]

\* renderer.setConfig(config) as the renderer receives it
CallSetConfig(r) ==
    [r EXCEPT !.setConfigCalls = @ + 1,
              !.usedAfterDispose = @ \/ r.disposeCalls > 0]

\* the second effect: rendererRef.current?.setConfig(config)
ConfigEffect(c) ==
    IF c.rendererRef = NULL THEN c
    ELSE [c EXCEPT !.renderers[c.rendererRef] = CallSetConfig(@)]

\* the dependency list of the second effect
EffectDeps ==
    {"cameraDistance", "orbitSpeed", "enableOrbit", "enableControls",
     "mouseSensitivity", "touchSensitivity", "enableZoom", "minDistance",
     "maxDistance", "fieldOfView", "showAccretionDisk", "enableLorentzTransform",
     "enableDopplerShift", "enableBeaming"}

\* config.f of the props: <<v>>, or <<>> for undefined
PropValue(props, f) == IF Has(props, f) THEN props[f] ELSE <<>>

\* some dependency of the second effect differs between two renders
DepsChanged(old, new) == \E f \in EffectDeps : PropValue(old, f) # PropValue(new, f)

\* the cleanup of the first effect without rendererRef.current = null
CleanupKeepsRef(c) ==
    IF c.rendererRef = NULL THEN c
    ELSE [c EXCEPT !.renderers[c.rendererRef].disposeCalls = @ + 1]

\* the cleanup of the first effect
Cleanup(c) ==
    IF c.rendererRef = NULL THEN c
    ELSE [c EXCEPT !.renderers[c.rendererRef].disposeCalls = @ + 1,
                   !.rendererRef = NULL]

\* the component is mounted with `props`: both effects run, in order
Mount(props) ==
    /\ ~comp.mounted
    /\ comp.mounts < MaxMounts
    /\ comp' = [ConfigEffect(InitRenderer(comp, props)) EXCEPT
                  !.mounted = TRUE, !.props = props, !.mounts = @ + 1]
    /\ UNCHANGED <<config, obs, ctl, uni, loop, now, tex, res, hist, ray>>

\* the mounted component renders again with `props`: the second effect runs
\* when one of its dependencies changed
Rerender(props) ==
    /\ comp.mounted
    /\ comp.renders < MaxRenders
    /\ comp' = [(IF DepsChanged(comp.props, props) THEN ConfigEffect(comp) ELSE comp)
                  EXCEPT !.props = props, !.renders = @ + 1]
    /\ UNCHANGED <<config, obs, ctl, uni, loop, now, tex, res, hist, ray>>

\* the component is unmounted (or its effects are torn down to be run again)
Unmount ==
    /\ comp.mounted
    /\ comp' = [Cleanup(comp) EXCEPT !.mounted = FALSE]
    /\ UNCHANGED <<config, obs, ctl, uni, loop, now, tex, res, hist, ray>>

ComponentProps ==
    {NoUpdate,
     [cameraDistance |-> <<300>>],
     [quality |-> <<"high">>],
     [cameraDistance |-> <<300>>, enableControls |-> <<TRUE>>],
     [fieldOfView |-> <<45>>, quality |-> <<"high">>]}

InitComponent == Constructor(NoUpdate)

NextComponent ==
    \/ \E props \in ComponentProps : Mount(props)
    \/ \E props \in ComponentProps : Rerender(props)
    \/ Unmount

SpecComponent == InitComponent /\ [][NextComponent]_vars

\* the renderers of the component that no dispose() call has reached
Undisposed == {i \in 1..Len(comp.renderers) : comp.renderers[i].disposeCalls = 0}

\* C35: over any sequence of mounts, unmounts and re-renders of the component
\* at most one renderer that has not been disposed exists, every renderer the
\* component created is disposed once the component is unmounted, and
\* setConfig is never called on a disposed renderer.
C35_OneLiveRenderer ==
    /\ Cardinality(Undisposed) <= 1
    /\ ~comp.mounted => Undisposed = {}
    /\ \A i \in 1..Len(comp.renderers) : ~comp.renderers[i].usedAfterDispose

\* the component was mounted, re-rendered with changed props, unmounted,
\* mounted again and unmounted again
C35_Witness ==
    /\ ~comp.mounted
    /\ Len(comp.renderers) = 2
    /\ comp.renderers[1].setConfigCalls > 1
    /\ comp.renderers[2].setConfigCalls > 0
    /\ comp.renderers[2].disposeCalls = 1

----------------------------------------------------------------------------
(* Teardown: what can still happen on a renderer after dispose() *)

TeardownConfigs ==
    {NoUpdate,
     [backgroundTextureUrl |-> <<"/assets/milkyway.jpg">>, onTexturesLoaded |-> <<TRUE>>],
     [backgroundTextureUrl |-> <<"/assets/milkyway.jpg">>,
      diskTextureUrl |-> <<"/assets/accretion_disk.png">>, onTexturesLoaded |-> <<TRUE>>]}

InitTeardown == \E uc \in TeardownConfigs : Constructor(uc)

NextTeardown ==
    \/ Start
    \/ Stop
    \/ \E gap \in Gaps : Tick(gap)
    \/ RenderFrame
    \/ Dispose
    \/ \E slot \in Slots : TextureLoaded(slot)
    \/ \E slot \in Slots : TextureFailed(slot)

SpecTeardown == InitTeardown /\ [][NextTeardown]_vars

\* C36: once dispose() has been called, a texture load that completes later
\* neither installs a texture into the uniforms nor invokes onTexturesLoaded,
\* so every texture the uniforms hold has been released by dispose.
C36_NoLoadAfterDispose ==
    /\ [][(hist.disposeCalls > 0 /\ hist'.op = "textureLoaded")
            => /\ HeldTextures(uni') = HeldTextures(uni)
               /\ tex'.calls = tex.calls]_vars
    /\ [](hist.disposeCalls > 0 => \A t \in HeldTextures(uni) : res.textures[t] > 0)

\* C37: after dispose() no frame is ever rendered: a later start() does not
\* restart the loop and a later renderFrame() renders nothing.
C37_NoFrameAfterDispose ==
    [][hist.disposeCalls > 0 => (~hist'.drew /\ loop'.animationId = NULL)]_vars

----------------------------------------------------------------------------
(* The camera velocity *)

VelocityConfigs ==
    {NoUpdate,
     [cameraDistance |-> <<201>>],
     [cameraDistance |-> <<110>>, orbitSpeed |-> <<2000000>>],
     [cameraDistance |-> <<150>>, enableControls |-> <<TRUE>>]}

VelocityUpdates ==
    {[cameraDistance |-> <<150>>],
     [orbitSpeed |-> <<900000>>],
     [enableControls |-> <<FALSE>>]}

InitVelocity == \E uc \in VelocityConfigs : Constructor(uc)

NextVelocity ==
    \/ Start
    \/ \E gap \in Gaps : Tick(gap)
    \/ RenderFrame
    \/ \E u \in VelocityUpdates : SetConfig(u)

SpecVelocity == InitVelocity /\ [][NextVelocity]_vars

\* 1 - dot(uCameraVelocity, uCameraVelocity), the radicand of the shader's
\* camera Lorentz factor
LorentzRadicand == ONE - Dot(CameraVelocity(obs), CameraVelocity(obs))

\* C38: in every reachable state the magnitude of the observer's velocity is
\* strictly below 1, so the camera Lorentz factor 1/sqrt(1 - v.v) of the
\* shader is finite, for every cameraDistance accepted at construction or by
\* setConfig.
C38_VelocityBelowOne ==
    /\ Length(obs.velocity) < 1000000
    /\ LorentzRadicand > 0

----------------------------------------------------------------------------
(* The clock of the frame loop *)

Leads == {16}  \* ms by which a frame timestamp precedes start()'s clock reading

ClockConfigs ==
    {NoUpdate,
     [cameraDistance |-> <<300>>],
     [enableOrbit |-> <<FALSE>>]}

ClockUpdates ==
    {[enableOrbit |-> <<FALSE>>],
     [enableOrbit |-> <<TRUE>>]}

InitClock == \E uc \in ClockConfigs : Constructor(uc)

NextClock ==
    \/ Start
    \/ Stop
    \/ \E gap \in Gaps : Tick(gap)
    \/ \E lead \in Leads : EarlyTick(lead)
    \/ \E u \in ClockUpdates : SetConfig(u)

SpecClock == InitClock /\ [][NextClock]_vars

\* the angle by which a frame moved the camera along its orbit, in [0, 2 pi)
Advance == (obs'.theta - obs.theta) % TWO_PI

\* C39: the elapsed time passed to the observer update is never negative, also
\* on the first scheduled tick after start(), so a frame of the loop never
\* moves the orbit angle backwards and never ramps the angular velocity in
\* the wrong direction.
C39_ElapsedNotNegative ==
    [][(hist'.drew /\ hist'.frame.by = "animate")
         => /\ obs'.time >= obs.time
            /\ obs.angularVelocity >= 0 => Advance <= PI
            /\ (obs'.moving /\ obs.angularVelocity < obs.maxAngularVelocity)
                   => obs'.angularVelocity >= obs.angularVelocity
            /\ (~obs'.moving /\ ~obs.manualControl /\ obs.angularVelocity > 0)
                   => obs'.angularVelocity <= obs.angularVelocity]_vars

============================================================================
